---- MODULE Spec2Model ----
(***************************************************************************)
(* Codex Commit Push: the commit-message generation pipeline and its       *)
(* commit-event gate (extension.ts, gitApi.ts, state.ts, diffCollector.ts, *)
(* codexCli.ts).                                                           *)
(*                                                                         *)
(* Text is modelled as a sequence of one-character strings.  Every await   *)
(* of the source is a step boundary: an action is the synchronous code     *)
(* that runs between two awaits (JavaScript runs it without interleaving). *)
(***************************************************************************)
EXTENDS Integers, Sequences, FiniteSets, TLC

VARIABLES
    platform,   \* process.platform
    config,     \* the codexCommitPush.* configuration values as the user set them
    open,       \* api.repositories, each with its onDidCommit listener
    pending,    \* PendingCommitState.pendingByRepository: key -> message | NoText
    inFlight,   \* pushInFlight: Set<string> of repository keys
    head,       \* repository.state.HEAD of each repository
    latest,     \* message of the commit at HEAD of each repository | NoText
    inputBox,   \* repository.inputBox.value
    gate,       \* the handleCommitEvent invocations suspended at an await
    run,        \* the handleGenerateCommand invocations suspended at an await
    ev,         \* what the last step did (calls made, notification shown)
    diff,       \* a collectDiffForPrompt call, step by step
    cx,         \* a generateCommitMessageWithCodex call, event by event
    norm,       \* a normalizeGeneratedMessage call
    cand        \* a generateCommitMessageWithCodex call over command candidates

vars ==
    <<platform, config, open, pending, inFlight, head, latest, inputBox, gate, run, ev,
      diff, cx, norm, cand>>

None == "None"

\* undefined, where the defined values are texts
NoText == <<"undefined">>

\* ------------------------------------------------------------------ bounds

\* How many handleCommitEvent invocations can be suspended at once.
NumGateSlots == 2
\* How many handleGenerateCommand invocations can be suspended at once.
NumRuns == 1

GateSlots == 1..NumGateSlots
RunSlots == 1..NumRuns

\* -------------------------------------------------------------------- text

\* The characters String.prototype.trim removes (those the model uses).
WhiteSpace == {" ", "\t", "\n", "\r"}

RECURSIVE TrimLeft(_)
TrimLeft(s) ==
    IF s = <<>> THEN s
    ELSE IF Head(s) \in WhiteSpace THEN TrimLeft(Tail(s)) ELSE s

RECURSIVE TrimRight(_)
TrimRight(s) ==
    IF s = <<>> THEN s
    ELSE IF s[Len(s)] \in WhiteSpace THEN TrimRight(SubSeq(s, 1, Len(s) - 1)) ELSE s

\* String.prototype.trim
Trim(s) == TrimRight(TrimLeft(s))

\* text.split(/\r?\n/g): the lines of s, a "\r" right before a "\n" belonging
\* to the separator.  Always at least one line.
RECURSIVE SplitLinesFrom(_, _)
SplitLinesFrom(s, cur) ==
    IF s = <<>> THEN <<cur>>
    ELSE IF Head(s) = "\n" THEN <<cur>> \o SplitLinesFrom(Tail(s), <<>>)
    ELSE IF Head(s) = "\r" /\ Len(s) >= 2 /\ s[2] = "\n"
         THEN <<cur>> \o SplitLinesFrom(Tail(Tail(s)), <<>>)
    ELSE SplitLinesFrom(Tail(s), Append(cur, Head(s)))

SplitLines(s) == SplitLinesFrom(s, <<>>)

\* firstLine(text) of extension.ts: text.split(/\r?\n/g)[0]?.trim() ?? ''
firstLine(text) == Trim(SplitLines(text)[1])

\* ------------------------------------------------------------ repositories

AllRepos == {"r1", "r2"}

\* repository.rootUri.fsPath, as path segments
\* (r3 and r4 are two more repository objects for the root of r1, one with a
\* "." segment in its path and one spelt in another case)
RootPath(r) ==
    CASE r = "r1" -> <<"Work", "app">>
      [] r = "r3" -> <<"Work", ".", "app">>
      [] r = "r4" -> <<"work", "App">>
      [] OTHER -> <<"Work", "lib">>

\* String.prototype.toLowerCase on a path segment
LowerSegment(seg) ==
    CASE seg = "Work" -> "work"
      [] seg = "App" -> "app"
      [] OTHER -> seg

\* path.normalize: "." segments vanish
RemoveDotSegments(p) == SelectSeq(p, LAMBDA seg : seg # ".")

normalizeFsPath(fsPath) ==
    LET normalized == RemoveDotSegments(fsPath) IN
    IF platform = "win32"
    THEN [i \in 1..Len(normalized) |-> LowerSegment(normalized[i])]
    ELSE normalized

repositoryKey(r) == normalizeFsPath(RootPath(r))

\* Every key a repository of the model can have, on either platform.
AllKeys ==
    {RemoveDotSegments(RootPath(r)) : r \in AllRepos}
    \cup {[i \in 1..Len(RemoveDotSegments(RootPath(r))) |->
              LowerSegment(RemoveDotSegments(RootPath(r))[i])] : r \in AllRepos}

\* -------------------------------------------------- pending-state registry

\* PendingCommitState.get
pendingGet(r) == pending[repositoryKey(r)]

\* PendingCommitState.set: the registry after set(repository, {message, createdAt})
\* (createdAt is written and never read)
pendingSet(reg, r, message) == [reg EXCEPT ![repositoryKey(r)] = message]

\* PendingCommitState.clear
pendingClear(reg, r) == [reg EXCEPT ![repositoryKey(r)] = NoText]

\* ---------------------------------------------------------------- settings

\* Math.max(1000, config.get('diffMaxChars', 12000))
MinDiffMaxChars == 1000

Max(a, b) == IF a >= b THEN a ELSE b

\* getSettings(): the values the pipeline uses
getSettings ==
    [includeUntracked |-> config.includeUntracked,
     diffMaxChars |-> Max(MinDiffMaxChars, config.diffMaxChars),
     autoCommitAfterGenerate |-> config.autoCommitAfterGenerate,
     pushRemote |-> config.pushRemote,
     pushBranch |-> config.pushBranch]

\* ---------------------------------------------------------------- messages

\* One-line, trimmed, non-empty texts: what the generator client resolves with.
GeneratedMsgs == {<<"a">>, <<"b">>}

\* Messages of commits the user makes by hand: the generated text as it stands
\* in the input box, the same padded and with a body, or edited by one character.
ManualMsgs == {<<"a">>, <<" ", "a", "\r", "\n", "x">>, <<"a", "b">>}

Branches == {"main", "dev"}

\* repository.state.HEAD: name and commit are optional; an undefined HEAD reads
\* like one with neither.
NoHead == [name |-> None, commit |-> FALSE]

\* HEAD of a repository that has commits: on a branch, or not available.
HeadValues == {[name |-> b, commit |-> TRUE] : b \in Branches} \cup {NoHead}

\* ----------------------------------------------------------- last-step record

NoPush == <<>>

\* op: the action; slot: the invocation that acted; result: the path it took;
\* notify: the vscode.window.show*Message call of the step; calls: the other
\* calls of the step; startResult: what a handleCommitEvent called in the step
\* decided; pushArgs: the arguments of repository.push; data: the text the step
\* worked on.
Ev(op, r, slot, result, notify, calls) ==
    [op |-> op, repo |-> r, slot |-> slot, result |-> result, notify |-> notify,
     calls |-> calls, startResult |-> "none", pushArgs |-> NoPush, data |-> <<>>]

\* --------------------------------------------------------- commit-event gate

IdleGate ==
    [pc |-> "idle", repo |-> None, key |-> <<>>, show |-> FALSE, pending |-> NoText,
     pushRemote |-> None, pushBranch |-> None, pushes |-> 0]

FreeGateSlots == {s \in GateSlots : gate[s].pc = "idle"}

\* A guard that is never held.
pushInFlightNeverHeld(key) == FALSE

\* pushInFlight.has(key)
pushInFlightHas(key) == key \in inFlight

\* What the synchronous head of handleCommitEvent decides.
GateStartResult(r) ==
    IF pendingGet(r) = NoText THEN "noPending"
    ELSE IF pushInFlightHas(repositoryKey(r)) THEN "inFlight"
    ELSE "started"

\* handleCommitEvent up to its first await: the two early returns, the guard's
\* acquisition, getSettings() and the call of repository.getCommit('HEAD').
\* Given the registry and guard set as the caller's step leaves them.
handleCommitEventBegin(s, r, show) ==
    IF GateStartResult(r) = "started"
    THEN /\ s \in FreeGateSlots
         /\ gate' = [gate EXCEPT ![s] =
                [pc |-> "awaitHead", repo |-> r, key |-> repositoryKey(r), show |-> show,
                 pending |-> pendingGet(r), pushRemote |-> getSettings.pushRemote,
                 pushBranch |-> getSettings.pushBranch, pushes |-> 0]]
         /\ inFlight' = inFlight \cup {repositoryKey(r)}
    ELSE /\ s = 0
         /\ UNCHANGED <<gate, inFlight>>

\* The slot handleCommitEventBegin is given: the lowest free one when the
\* evaluation starts, 0 when the call returns at once.
BeginSlots(r) ==
    IF GateStartResult(r) # "started" THEN {0}
    ELSE {s \in FreeGateSlots : \A t \in FreeGateSlots : s <= t}

\* The calls a handleCommitEvent invocation makes before its first await.
GateCalls(r) ==
    IF GateStartResult(r) = "started"
    THEN {"handleCommitEvent", "repository.getCommit"}
    ELSE {"handleCommitEvent"}

\* head?.name ?? ''
currentBranchName(h) == IF h.name = None THEN "" ELSE h.name

\* A comparison of the first characters only.
messageMismatchFirstChar(commitMessage, pendingMessage) ==
    SubSeq(firstLine(commitMessage), 1, 1) # SubSeq(Trim(pendingMessage), 1, 1)

\* latestMessage !== pending.message.trim()
messageMismatch(commitMessage, pendingMessage) ==
    firstLine(commitMessage) # Trim(pendingMessage)

\* A push that sets the upstream.
pushArgumentsSetUpstream(g) == <<g.pushRemote, g.pushBranch, TRUE>>

\* repository.push(settings.pushRemote, settings.pushBranch, false)
pushArguments(g) == <<g.pushRemote, g.pushBranch, FALSE>>

\* currentBranchName !== getSettings.pushBranch
branchMismatch(h, pushBranch) == currentBranchName(h) # pushBranch

\* A finally block that releases the guard and leaves the pending entry.
GateFinallyKeepsPending(s) ==
    /\ pending' = pending
    /\ inFlight' = inFlight \ {gate[s].key}
    /\ gate' = [gate EXCEPT ![s] = IdleGate]

\* A finally block that empties the registry and the guard.
GateFinallyReleasesAll(s) ==
    /\ pending' = [k \in AllKeys |-> NoText]
    /\ inFlight' = {}
    /\ gate' = [gate EXCEPT ![s] = IdleGate]

\* The finally block: pendingState.clear(repository); pushInFlight.delete(key)
GateFinally(s) ==
    /\ pending' = pendingClear(pending, gate[s].repo)
    /\ inFlight' = inFlight \ {gate[s].key}
    /\ gate' = [gate EXCEPT ![s] = IdleGate]

GateNotify(s, kind) == IF gate[s].show THEN kind ELSE "none"

\* From the resolved latest commit to the push call or a skip (lines 179-207).
GateCompare(s, op) ==
    LET g == gate[s]
        r == g.repo IN
    IF messageMismatch(latest[r], g.pending)
    THEN /\ GateFinally(s)
         /\ ev' = Ev(op, r, s, "msg-mismatch", GateNotify(s, "info"), {})
    ELSE IF branchMismatch(head[r], g.pushBranch)
    THEN /\ GateFinally(s)
         /\ ev' = Ev(op, r, s, "branch-mismatch", GateNotify(s, "info"), {})
    ELSE /\ gate' = [gate EXCEPT ![s].pc = "awaitPush", ![s].pushes = g.pushes + 1]
         /\ ev' = [Ev(op, r, s, "push-called", "none", {"repository.push"})
                       EXCEPT !.pushArgs = pushArguments(g)]
         /\ UNCHANGED <<pending, inFlight>>

\* await repository.getCommit('HEAD') resolves
GateHeadLookupResolved(s) ==
    /\ gate[s].pc = "awaitHead"
    /\ latest[gate[s].repo] # NoText
    /\ GateCompare(s, "GateHeadLookupResolved")
    /\ UNCHANGED <<norm, cand, diff, cx, platform, config, open, head, latest, inputBox, run>>

\* await repository.getCommit('HEAD') rejects: the fallback to HEAD's hash
GateHeadLookupFailed(s) ==
    /\ gate[s].pc = "awaitHead"
    /\ IF ~head[gate[s].repo].commit
       THEN /\ GateFinally(s)
            /\ ev' = Ev("GateHeadLookupFailed", gate[s].repo, s, "no-commit",
                        GateNotify(s, "warning"), {})
       ELSE /\ gate' = [gate EXCEPT ![s].pc = "awaitHash"]
            /\ ev' = Ev("GateHeadLookupFailed", gate[s].repo, s, "fallback", "none",
                        {"repository.getCommit"})
            /\ UNCHANGED <<pending, inFlight>>
    /\ UNCHANGED <<norm, cand, diff, cx, platform, config, open, head, latest, inputBox, run>>

\* await repository.getCommit(headCommit) resolves
GateHashLookupResolved(s) ==
    /\ gate[s].pc = "awaitHash"
    /\ latest[gate[s].repo] # NoText
    /\ GateCompare(s, "GateHashLookupResolved")
    /\ UNCHANGED <<norm, cand, diff, cx, platform, config, open, head, latest, inputBox, run>>

\* await repository.getCommit(headCommit) rejects: the catch block, then finally
GateHashLookupFailed(s) ==
    /\ gate[s].pc = "awaitHash"
    /\ GateFinally(s)
    /\ ev' = Ev("GateHashLookupFailed", gate[s].repo, s, "lookup-failed", "error", {})
    /\ UNCHANGED <<norm, cand, diff, cx, platform, config, open, head, latest, inputBox, run>>

\* await repository.push(...) resolves
GatePushResolved(s) ==
    /\ gate[s].pc = "awaitPush"
    /\ GateFinally(s)
    /\ ev' = Ev("GatePushResolved", gate[s].repo, s, "pushed", "info", {})
    /\ UNCHANGED <<norm, cand, diff, cx, platform, config, open, head, latest, inputBox, run>>

\* await repository.push(...) rejects: the catch block, then finally
GatePushFailed(s) ==
    /\ gate[s].pc = "awaitPush"
    /\ GateFinally(s)
    /\ ev' = Ev("GatePushFailed", gate[s].repo, s, "push-failed", "error", {})
    /\ UNCHANGED <<norm, cand, diff, cx, platform, config, open, head, latest, inputBox, run>>

\* --------------------------------------------------------------- environment

\* repository.state.HEAD once a commit was made: a branch has its hash.
HeadAfterCommit(h) == IF h.name = None THEN h ELSE [h EXCEPT !.commit = TRUE]

\* The user commits by hand; the git extension fires onDidCommit and the
\* listener of registerCommitListeners calls handleCommitEvent(..., false).
CommitOccurs(r, m, s) ==
    /\ r \in open
    /\ latest' = [latest EXCEPT ![r] = m]
    /\ head' = [head EXCEPT ![r] = HeadAfterCommit(head[r])]
    /\ handleCommitEventBegin(s, r, FALSE)
    /\ ev' = [Ev("CommitOccurs", r, s, "commit", "none", GateCalls(r))
                 EXCEPT !.startResult = GateStartResult(r), !.data = m]
    /\ UNCHANGED <<norm, cand, diff, cx, platform, config, open, pending, inputBox, run>>

\* The user checks out another branch, detaches HEAD, ...
HeadChanged(r, h) ==
    /\ r \in open
    /\ h # head[r]
    /\ latest[r] # NoText
    /\ head' = [head EXCEPT ![r] = h]
    /\ ev' = Ev("HeadChanged", r, 0, "head", "none", {})
    /\ UNCHANGED <<norm, cand, diff, cx, platform, config, open, pending, inFlight, latest, inputBox, gate, run>>

\* ------------------------------------------------------------ diff collector

\* `\n\n[TRUNCATED]`
TruncationMarker == <<"\n", "\n", "[", "T", "R", "U", "N", "C", "A", "T", "E", "D", "]">>

\* `## Tracked Diff\n`
TrackedHeader ==
    <<"#", "#", " ", "T", "r", "a", "c", "k", "e", "d", " ", "D", "i", "f", "f", "\n">>

\* `## Untracked Files\n`
UntrackedHeader ==
    <<"#", "#", " ", "U", "n", "t", "r", "a", "c", "k", "e", "d", " ",
      "F", "i", "l", "e", "s", "\n">>

\* Array.prototype.join
RECURSIVE Join(_, _)
Join(parts, sep) ==
    IF parts = <<>> THEN <<>>
    ELSE IF Len(parts) = 1 THEN parts[1]
    ELSE parts[1] \o sep \o Join(Tail(parts), sep)

\* A truncation that already cuts a text of exactly maxChars characters.
truncateDiffTextAtCap(diffText, maxChars) ==
    IF Len(diffText) < maxChars
    THEN [text |-> diffText, wasTruncated |-> FALSE]
    ELSE [text |-> SubSeq(diffText, 1, maxChars) \o TruncationMarker, wasTruncated |-> TRUE]

\* A truncation that appends the marker to the whole text.
truncateDiffTextNoCut(diffText, maxChars) ==
    IF Len(diffText) <= maxChars
    THEN [text |-> diffText, wasTruncated |-> FALSE]
    ELSE [text |-> diffText \o TruncationMarker, wasTruncated |-> TRUE]

\* truncateDiffText(diffText, maxChars)
truncateDiffText(diffText, maxChars) ==
    IF Len(diffText) <= maxChars
    THEN [text |-> diffText, wasTruncated |-> FALSE]
    ELSE [text |-> SubSeq(diffText, 1, maxChars) \o TruncationMarker, wasTruncated |-> TRUE]

\* getUntrackedFiles: the lines of `git ls-files` output, trimmed, blank ones dropped
untrackedFilesOf(stdout) ==
    LET lines == SplitLines(stdout)
        trimmed == [i \in 1..Len(lines) |-> Trim(lines[i])] IN
    SelectSeq(trimmed, LAMBDA line : Len(line) > 0)

\* The sections of collectDiffForPrompt (lines 105-113)
diffSections(trackedDiff, untrackedFiles) ==
    (IF Len(Trim(trackedDiff)) > 0 THEN <<TrackedHeader \o Trim(trackedDiff)>> ELSE <<>>)
    \o (IF Len(untrackedFiles) > 0
        THEN <<UntrackedHeader
               \o Join([i \in 1..Len(untrackedFiles) |-> <<"-", " ">> \o untrackedFiles[i]],
                       <<"\n">>)>>
        ELSE <<>>)

\* collectDiffForPrompt once the git calls have settled (lines 105-131)
composeDiff(trackedDiff, untrackedFiles, maxChars) ==
    LET combined == Join(diffSections(trackedDiff, untrackedFiles), <<"\n", "\n">>) IN
    IF combined = <<>>
    THEN [diffText |-> <<>>, trackedDiff |-> trackedDiff,
          untrackedFiles |-> untrackedFiles, wasTruncated |-> FALSE]
    ELSE [diffText |-> truncateDiffText(combined, maxChars).text,
          trackedDiff |-> trackedDiff, untrackedFiles |-> untrackedFiles,
          wasTruncated |-> truncateDiffText(combined, maxChars).wasTruncated]

\* ---------------------------------------------- diff collector, step by step

\* How far around the cap the lengths of the long `git diff` outputs range.
DiffSlack == 1

\* config.get('diffMaxChars', 12000)
DefaultDiffMaxChars == 12000

\* A text of n characters.
LongText(n) == [i \in 1..n |-> "x"]

\* The lengths at which a composed text meets the smallest cap: the tracked
\* section alone, and the tracked section followed by a one-file list.
LongLengths ==
    LET alone == MinDiffMaxChars - Len(TrackedHeader)
        withList == alone - 2 - Len(UntrackedHeader) - 3 IN
    {alone + d : d \in (0 - DiffSlack)..(DiffSlack + 1)}
    \cup {withList + d : d \in (0 - DiffSlack)..(DiffSlack + 1)}

\* What `git diff` prints.
DiffTrackedOutputs ==
    {<<>>, <<" ", "\n">>, <<"+", "x", "\n">>} \cup {LongText(n) : n \in LongLengths}

\* What `git ls-files --others --exclude-standard` prints.
DiffUntrackedOutputs == {<<>>, <<"f", "\n">>, <<" ", "f", "\r", "\n", "\n", "g">>}

NoDiffResult ==
    [diffText |-> NoText, trackedDiff |-> <<>>, untrackedFiles |-> <<>>, wasTruncated |-> FALSE]

\* The argument lists runGit is called with (state.ts lines 67, 70 and 75).
GitDiffHead == <<"diff", "HEAD", "--">>
GitDiffNoBase == <<"diff", "--">>
GitLsFiles == <<"ls-files", "--others", "--exclude-standard">>

\* `git` lists the runGit calls of the collection in order, `rejected` those
\* of them that failed.
IdleDiff ==
    [pc |-> "idle", includeUntracked |-> FALSE, maxChars |-> 0, trackedDiff |-> <<>>,
     combined |-> <<>>, result |-> NoDiffResult, git |-> <<>>, rejected |-> {}]

\* collectDiffForPrompt from `const sections` on: the result, and the text
\* that reached truncateDiffText; `failedCalls` are the runGit calls whose
\* failure the step before caught
DiffCompose(trackedDiff, untrackedFiles, failedCalls) ==
    diff' = [diff EXCEPT
                !.pc = "done",
                !.rejected = @ \cup failedCalls,
                !.trackedDiff = trackedDiff,
                !.combined = Join(diffSections(trackedDiff, untrackedFiles), <<"\n", "\n">>),
                !.result = composeDiff(trackedDiff, untrackedFiles, diff.maxChars)]

\* collectDiffForPrompt is called with the settings of the moment
DiffStart ==
    /\ diff.pc \in {"idle", "done", "failed"}
    /\ diff' = [IdleDiff EXCEPT !.pc = "tracked",
                                !.git = <<GitDiffHead>>,
                                !.includeUntracked = getSettings.includeUntracked,
                                !.maxChars = getSettings.diffMaxChars]
    /\ UNCHANGED <<platform, config, open, pending, inFlight, head, latest, inputBox, gate,
                   run, ev, cx, norm, cand>>

\* getTrackedDiff: `git diff HEAD --` fails and `git diff --` is run instead
DiffHeadDiffFailed ==
    /\ diff.pc = "tracked"
    /\ diff' = [diff EXCEPT !.pc = "fallback",
                            !.rejected = @ \cup {GitDiffHead},
                            !.git = Append(@, GitDiffNoBase)]
    /\ UNCHANGED <<platform, config, open, pending, inFlight, head, latest, inputBox, gate,
                   run, ev, cx, norm, cand>>

\* getTrackedDiff: `git diff --` fails too and collectDiffForPrompt rejects
DiffFallbackFailed ==
    /\ diff.pc = "fallback"
    /\ diff' = [diff EXCEPT !.pc = "failed", !.rejected = @ \cup {GitDiffNoBase}]
    /\ UNCHANGED <<platform, config, open, pending, inFlight, head, latest, inputBox, gate,
                   run, ev, cx, norm, cand>>

\* getTrackedDiff resolves
DiffTrackedResolved(stdout) ==
    /\ diff.pc \in {"tracked", "fallback"}
    /\ IF diff.includeUntracked
       THEN diff' = [diff EXCEPT !.pc = "untracked", !.trackedDiff = stdout,
                                 !.git = Append(@, GitLsFiles)]
       ELSE DiffCompose(stdout, <<>>, {})
    /\ UNCHANGED <<platform, config, open, pending, inFlight, head, latest, inputBox, gate,
                   run, ev, cx, norm, cand>>

\* getUntrackedFiles resolves
DiffUntrackedResolved(stdout) ==
    /\ diff.pc = "untracked"
    /\ DiffCompose(diff.trackedDiff, untrackedFilesOf(stdout), {})
    /\ UNCHANGED <<platform, config, open, pending, inFlight, head, latest, inputBox, gate,
                   run, ev, cx, norm, cand>>

\* A listing whose failure rejects the whole collection.
DiffUntrackedRejects ==
    /\ diff.pc = "untracked"
    /\ diff' = [diff EXCEPT !.pc = "failed", !.rejected = @ \cup {GitLsFiles}]
    /\ UNCHANGED <<platform, config, open, pending, inFlight, head, latest, inputBox, gate,
                   run, ev, cx, norm, cand>>

\* getUntrackedFiles rejects: the list stays empty
DiffUntrackedFailed ==
    /\ diff.pc = "untracked"
    /\ DiffCompose(diff.trackedDiff, <<>>, {GitLsFiles})
    /\ UNCHANGED <<platform, config, open, pending, inFlight, head, latest, inputBox, gate,
                   run, ev, cx, norm, cand>>

\* ------------------------------------------------ generator client (codexCli)

\* How many lines the subprocess prints on stdout.
MaxStdoutLines == 2

\* The output of the subprocess is a sequence of symbols: the white space
\* characters, the braces of a JSON object, the JSON literal null, one symbol
\* for the members of each event shape, and one symbol for each stretch of
\* the texts isModelAccessError looks for (in lower and in upper case).

\* `"type":"item.completed","item":{"type":"agent_message","text":...}`
\* and the members of events of the other shapes
EventShapes ==
    [Ma |-> [type |-> "item.completed", itemType |-> "agent_message",
             textIsString |-> TRUE, text |-> <<"a">>],
     Me |-> [type |-> "item.completed", itemType |-> "agent_message",
             textIsString |-> TRUE, text |-> <<>>],
     Mw |-> [type |-> "item.completed", itemType |-> "agent_message",
             textIsString |-> TRUE, text |-> <<" ", "\n", " ">>],
     Mq |-> [type |-> "item.completed", itemType |-> "agent_message",
             textIsString |-> TRUE, text |-> <<"\"", "'">>],
     Os |-> [type |-> "item.started", itemType |-> "agent_message",
             textIsString |-> TRUE, text |-> <<"a">>],
     On |-> [type |-> "item.completed", itemType |-> "agent_message",
             textIsString |-> FALSE, text |-> <<>>]]

\* "n": `do not have access`, "t": ` to it`, "x": `does not exist or you `,
\* "e": any other text; "N", "T", "X": the same in upper case
PhraseWords == {"n", "t", "x", "e", "N", "T", "X"}

\* String.prototype.toLowerCase
toLowerCase(text) ==
    [i \in 1..Len(text) |->
        CASE text[i] = "N" -> "n"
          [] text[i] = "T" -> "t"
          [] text[i] = "X" -> "x"
          [] OTHER -> text[i]]

\* String.prototype.includes
includes(text, part) ==
    \E i \in 1..(Len(text) - Len(part) + 1) : SubSeq(text, i, i + Len(part) - 1) = part

\* isModelAccessError(text)
isModelAccessError(text) ==
    LET lowered == toLowerCase(text) IN
    \/ includes(lowered, <<"x", "n">>)
    \/ includes(lowered, <<"n", "t">>)

\* JSON.parse(trimmed) and what the handler reads of the value: "throws" for
\* text that is not JSON, "null" for the literal, else the event.  White
\* space between the tokens of a JSON text is insignificant.
ParseJson(trimmed) ==
    LET tokens == SelectSeq(trimmed, LAMBDA c : c \notin WhiteSpace)
        body == SubSeq(tokens, 2, Len(tokens) - 1)
        noEvent == [type |-> "none", itemType |-> "none", textIsString |-> FALSE,
                    text |-> <<>>] IN
    IF tokens = <<"null">> THEN [kind |-> "null", event |-> noEvent]
    ELSE IF Len(tokens) >= 3 /\ tokens[1] = "{" /\ tokens[Len(tokens)] = "}"
         THEN IF Len(body) = 1 /\ body[1] \in DOMAIN EventShapes
              THEN [kind |-> "object", event |-> EventShapes[body[1]]]
              ELSE IF \A i \in 1..Len(body) : body[i] \in PhraseWords
              THEN [kind |-> "object",
                    event |-> [noEvent EXCEPT !.type = "error"]]
              ELSE [kind |-> "throws", event |-> noEvent]
    ELSE [kind |-> "throws", event |-> noEvent]

\* The condition under which processStdoutLines takes the text of an event.
isCompletedAgentMessage(event) ==
    /\ event.type = "item.completed"
    /\ event.itemType = "agent_message"
    /\ event.textIsString

\* The loop of processStdoutLines over the complete lines: the tracked
\* message after it, and whether reading `event.type` of null threw out of it.
RECURSIVE processLines(_, _)
processLines(lines, lastAgentMessage) ==
    IF lines = <<>> THEN [lastAgentMessage |-> lastAgentMessage, threw |-> FALSE]
    ELSE LET trimmed == Trim(Head(lines))
             parsed == ParseJson(trimmed) IN
         IF trimmed = <<>> \/ parsed.kind = "throws"
         THEN processLines(Tail(lines), lastAgentMessage)
         ELSE IF parsed.kind = "null"
         THEN [lastAgentMessage |-> lastAgentMessage, threw |-> TRUE]
         ELSE IF isCompletedAgentMessage(parsed.event)
         THEN processLines(Tail(lines), parsed.event.text)
         ELSE processLines(Tail(lines), lastAgentMessage)

\* processStdoutLines(chunk) on the state c of a call
processStdoutLines(c, chunk) ==
    LET lines == SplitLines(c.stdoutBuffer \o chunk)
        done == processLines(SubSeq(lines, 1, Len(lines) - 1), c.lastAgentMessage) IN
    [c EXCEPT !.stdoutRaw = c.stdoutRaw \o chunk,
              !.stdoutBuffer = lines[Len(lines)],
              !.lastAgentMessage = done.lastAgentMessage,
              !.uncaught = IF done.threw THEN c.uncaught + 1 ELSE c.uncaught,
              !.threw = done.threw]

\* The quote characters of /^["'`]+|["'`]+$/g (those the model uses).
QuoteChars == {"\"", "'"}

\* A strip of one leading quote character only.
StripOneQuoteLeft(s) == IF s # <<>> /\ Head(s) \in QuoteChars THEN Tail(s) ELSE s

RECURSIVE StripQuotesLeft(_)
StripQuotesLeft(s) ==
    IF s # <<>> /\ Head(s) \in QuoteChars THEN StripQuotesLeft(Tail(s)) ELSE s

RECURSIVE StripQuotesRight(_)
StripQuotesRight(s) ==
    IF s # <<>> /\ s[Len(s)] \in QuoteChars
    THEN StripQuotesRight(SubSeq(s, 1, Len(s) - 1))
    ELSE s

\* normalizeGeneratedMessage(raw)
normalizeGeneratedMessage(raw) ==
    LET lines == SplitLines(raw)
        trimmed == [i \in 1..Len(lines) |-> Trim(lines[i])]
        nonBlank == SelectSeq(trimmed, LAMBDA line : Len(line) > 0)
        firstNonBlank == IF nonBlank = <<>> THEN <<>> ELSE nonBlank[1] IN
    Trim(StripQuotesRight(StripQuotesLeft(firstNonBlank)))

\* The promise of a call: pending, resolved with a message, or rejected with
\* a CodexCliError of some code.
Pending == [kind |-> "pending", message |-> <<>>]
Rejected(code) == [kind |-> code, message |-> <<>>]
Resolved(message) == [kind |-> "resolved", message |-> message]

\* settle(callback) up to the callback
settle(c, by) ==
    [c EXCEPT !.settled = TRUE, !.timerArmed = FALSE, !.settledBy = by, !.clears = @ + 1]

\* The 'error' listener: error.code === 'ENOENT' (ENOENT or EINVAL in
\* runCodexWithCommand)
onError(c, errno) ==
    LET a == [c EXCEPT !.arrived = Append(@, "error")] IN
    IF a.settled THEN a
    ELSE [settle(a, "error") EXCEPT
            !.outcome = IF errno = "ENOENT" THEN Rejected("not-found")
                        ELSE Rejected("process-failed"),
            !.settlements = @ + 1]

\* The decision of the 'close' listener once the buffer is flushed
closeOutcome(c, code) ==
    IF c.timedOut THEN Rejected("timeout")
    ELSE IF code # "0"
    THEN IF isModelAccessError(c.stderrRaw \o <<"\n">> \o c.stdoutRaw)
         THEN Rejected("model-access")
         ELSE Rejected("process-failed")
    ELSE IF c.lastAgentMessage \in {NoText, <<>>} THEN Rejected("parse-failed")
    ELSE IF normalizeGeneratedMessage(c.lastAgentMessage) = <<>>
    THEN Rejected("empty-response")
    ELSE Resolved(normalizeGeneratedMessage(c.lastAgentMessage))

\* The body of the 'close' listener run whether or not the call is settled.
onCloseUnguarded(c, code) ==
    LET s == settle([c EXCEPT !.arrived = Append(@, "close")], "close")
        flushed == IF Trim(s.stdoutBuffer) # <<>>
                   THEN processStdoutLines(s, <<"\n">>)
                   ELSE [s EXCEPT !.threw = FALSE] IN
    IF flushed.threw THEN flushed
    ELSE [flushed EXCEPT !.outcome = closeOutcome(flushed, code), !.settlements = @ + 1]

\* The 'close' listener: the flush of an unterminated last line, which can
\* throw out of the listener, then the decision
onClose(c, code) ==
    LET a == [c EXCEPT !.arrived = Append(@, "close")] IN
    IF a.settled THEN a
    ELSE LET s == settle(a, "close")
             flushed == IF Trim(s.stdoutBuffer) # <<>>
                        THEN processStdoutLines(s, <<"\n">>)
                        ELSE [s EXCEPT !.threw = FALSE] IN
         IF flushed.threw THEN flushed
         ELSE [flushed EXCEPT !.outcome = closeOutcome(flushed, code),
                              !.settlements = @ + 1]

\* What a line of stdout holds, and how a line ends.
LineContents ==
    {<<"{", "Ma", "}">>, <<"{", "Me", "}">>, <<"{", "Mw", "}">>, <<"{", "Mq", "}">>,
     <<"{", "Os", "}">>, <<"{", "On", "}">>,
     <<"null">>, <<"{", "Ma">>, <<"{", "x", "n", "}">>, <<" ">>}

LineEnds == {<<"\n">>, <<"\r", "\n">>}

\* The texts of up to n lines, the last one terminated or not; the first
\* line ends in either way, the later ones with a bare "\n".
RECURSIVE StdoutTexts(_)
StdoutTexts(n) ==
    IF n = 0 THEN {<<>>}
    ELSE {<<>>} \cup LineContents
         \cup {l \o e \o rest :
                 l \in LineContents,
                 e \in IF n = MaxStdoutLines THEN LineEnds ELSE {<<"\n">>},
                 rest \in StdoutTexts(n - 1)}

\* What the subprocess writes to stderr.
StderrTexts == {<<>>, <<"e">>, <<"N", "T">>, <<"x", "n">>, <<"n", "e", "t">>}

\* The subprocesses: every stdout text with a plain stderr, and every stderr
\* text with a few stdout texts.
Subprocesses ==
    (StdoutTexts(MaxStdoutLines) \X {<<>>})
    \cup ({<<>>, <<"{", "Ma", "}", "\n">>, <<"{", "x", "n", "}", "\n">>, <<"null">>}
          \X StderrTexts)

\* The state of a call before spawn: the closure variables of the promise
\* executor, the timer, what the subprocess is still to write, the 'error' and
\* 'close' events in their order of arrival, and how often clearTimeout and
\* resolve or reject were called.
NewCall(out, err) ==
    [pc |-> "idle", out |-> out, err |-> err,
     stdoutBuffer |-> <<>>, stdoutRaw |-> <<>>, stderrRaw |-> <<>>,
     lastAgentMessage |-> NoText, timedOut |-> FALSE, settled |-> FALSE,
     timerArmed |-> FALSE, settledBy |-> "none", outcome |-> Pending,
     closeCode |-> "none", uncaught |-> 0, threw |-> FALSE,
     arrived |-> <<>>, clears |-> 0, settlements |-> 0]

IdleCodex == NewCall(<<>>, <<>>)

\* spawn starts the subprocess; the timer is armed
CodexSpawn ==
    /\ cx.pc = "idle"
    /\ cx' = [cx EXCEPT !.pc = "running", !.timerArmed = TRUE]
    /\ UNCHANGED <<platform, config, open, pending, inFlight, head, latest, inputBox, gate,
                   run, ev, diff, norm, cand>>

\* spawn fails: the child emits 'error' on the next tick, before anything else
CodexSpawnFailed(errno) ==
    /\ cx.pc = "idle"
    /\ cx' = onError([cx EXCEPT !.pc = "failed", !.timerArmed = TRUE], errno)
    /\ UNCHANGED <<platform, config, open, pending, inFlight, head, latest, inputBox, gate,
                   run, ev, diff, norm, cand>>

\* child.stdout 'data': the next n symbols arrive as one chunk
CodexStdoutData(n) ==
    /\ cx.pc = "running"
    /\ n \in 1..Len(cx.out)
    /\ cx' = [processStdoutLines(cx, SubSeq(cx.out, 1, n)) EXCEPT
                !.out = SubSeq(cx.out, n + 1, Len(cx.out))]
    /\ UNCHANGED <<platform, config, open, pending, inFlight, head, latest, inputBox, gate,
                   run, ev, diff, norm, cand>>

\* child.stderr 'data'
CodexStderrData(n) ==
    /\ cx.pc = "running"
    /\ n \in 1..Len(cx.err)
    /\ cx' = [cx EXCEPT !.stderrRaw = cx.stderrRaw \o SubSeq(cx.err, 1, n),
                        !.err = SubSeq(cx.err, n + 1, Len(cx.err)),
                        !.threw = FALSE]
    /\ UNCHANGED <<platform, config, open, pending, inFlight, head, latest, inputBox, gate,
                   run, ev, diff, norm, cand>>

\* The timer fires: timedOut, child.kill(); a kill that fails makes the child
\* emit 'error' from within kill()
CodexTimerFires(killFails) ==
    /\ cx.pc = "running"
    /\ cx.timerArmed
    /\ LET fired == [cx EXCEPT !.timedOut = TRUE, !.timerArmed = FALSE, !.threw = FALSE] IN
       cx' = IF killFails THEN onError(fired, "EPERM") ELSE fired
    /\ UNCHANGED <<platform, config, open, pending, inFlight, head, latest, inputBox, gate,
                   run, ev, diff, norm, cand>>

\* The child emits 'close': the exit code of the subprocess, null when a
\* signal ended it, the negated errno when it never started
CodexClose(code) ==
    /\ \/ cx.pc = "running" /\ code \in {"0", "1", "null"}
       \/ cx.pc = "failed" /\ code = "-2"
    /\ cx' = [onClose(cx, code) EXCEPT !.pc = "closed", !.closeCode = code]
    /\ UNCHANGED <<platform, config, open, pending, inFlight, head, latest, inputBox, gate,
                   run, ev, diff, norm, cand>>

\* ------------------------------------------- normalizeGeneratedMessage calls

\* How long the raw agent-message texts are at most.
MaxRawLen == 4

\* The characters of the raw texts.
RawChars == {"a", " ", "\n", "\r", "\"", "'"}

\* The texts of 1..n characters (the close listener passes no empty text).
RawTexts == UNION {[1..n -> RawChars] : n \in 1..MaxRawLen}

IdleNormalize == [pc |-> "idle", raw |-> <<>>, result |-> NoText]

\* normalizeGeneratedMessage(lastAgentMessage) returns
NormalizeReturns ==
    /\ norm.pc = "called"
    /\ norm' = [norm EXCEPT !.pc = "returned", !.result = normalizeGeneratedMessage(norm.raw)]
    /\ UNCHANGED <<platform, config, open, pending, inFlight, head, latest, inputBox, gate,
                   run, ev, diff, cx, cand>>

\* -------------------------------------------------------------- orchestrator

\* What `git diff` prints in the runs of the orchestrator.
RunTrackedDiffs == {<<>>, <<" ", "\n">>, <<"+", "x", "\n">>}

\* What `git ls-files --others` prints in the runs of the orchestrator.
RunUntrackedOutputs == {<<>>, <<"f", "\n">>}

\* CodexCliErrorCode
CodexErrorKinds ==
    {"not-found", "timeout", "model-access", "process-failed", "parse-failed",
     "empty-response"}

\* Messages of the errors `git add` and repository.commit reject with, as
\* sequences of phrases.
GitErrorMessages ==
    { <<"On branch main", "nothing to commit", "working tree clean">>,
      <<"no changes added", "to commit">>,
      <<"Aborting commit due to", "Empty Commit Message">>,
      <<"nothing added to commit but", "untracked files present">>,
      <<"fatal:", "unable to write index">> }

\* The alternatives of /nothing to commit|no changes added|working tree clean|empty commit message/i
NoChangesPhrases ==
    {"nothing to commit", "no changes added", "working tree clean", "empty commit message"}

\* What the flag i makes of the case of a phrase.
LowerPhrase(phrase) ==
    IF phrase = "Empty Commit Message" THEN "empty commit message" ELSE phrase

\* The test without the flag i.
isNoChangesCommitErrorCaseSensitive(message) ==
    \E i \in 1..Len(message) : message[i] \in NoChangesPhrases

\* isNoChangesCommitError(message)
isNoChangesCommitError(message) ==
    \E i \in 1..Len(message) : LowerPhrase(message[i]) \in NoChangesPhrases

IdleRun == [pc |-> "idle", repo |-> None, message |-> NoText, auto |-> FALSE]

\* A check that never stops the run.
diffIsEmptyNever(diffText) == FALSE

\* !diffResult.diffText.trim()
diffIsEmpty(diffText) == Trim(diffText) = <<>>

\* A run that calls the generator before the diff is collected.
GenStartGenerating(u, r) ==
    /\ run[u].pc = "idle"
    /\ r \in open
    /\ run' = [run EXCEPT ![u] = [pc |-> "generating", repo |-> r, message |-> NoText,
                                  auto |-> getSettings.autoCommitAfterGenerate]]
    /\ ev' = Ev("GenStart", r, u, "collecting", "none",
                {"collectDiffForPrompt", "generateCommitMessageWithCodex"})
    /\ UNCHANGED <<norm, cand, diff, cx, platform, config, open, pending, inFlight, head, latest, inputBox, gate>>

\* handleGenerateCommand up to `await collectDiffForPrompt(...)`
GenStart(u, r) ==
    /\ run[u].pc = "idle"
    /\ r \in open
    /\ run' = [run EXCEPT ![u] = [pc |-> "collecting", repo |-> r, message |-> NoText,
                                  auto |-> getSettings.autoCommitAfterGenerate]]
    /\ ev' = Ev("GenStart", r, u, "collecting", "none", {"collectDiffForPrompt"})
    /\ UNCHANGED <<norm, cand, diff, cx, platform, config, open, pending, inFlight, head, latest, inputBox, gate>>

\* collectDiffForPrompt rejects
GenDiffFailed(u) ==
    /\ run[u].pc = "collecting"
    /\ run' = [run EXCEPT ![u] = IdleRun]
    /\ ev' = Ev("GenDiffFailed", run[u].repo, u, "diff-failed", "error", {})
    /\ UNCHANGED <<norm, cand, diff, cx, platform, config, open, pending, inFlight, head, latest, inputBox, gate>>

\* collectDiffForPrompt resolves: the empty-diff stop, or the prompt and the
\* call of generateCommitMessageWithCodex
GenDiffCollected(u, trackedDiff, lsFiles) ==
    LET untracked == IF getSettings.includeUntracked THEN untrackedFilesOf(lsFiles) ELSE <<>>
        diffResult == composeDiff(trackedDiff, untracked, getSettings.diffMaxChars) IN
    /\ run[u].pc = "collecting"
    /\ IF diffIsEmpty(diffResult.diffText)
       THEN /\ run' = [run EXCEPT ![u] = IdleRun]
            /\ ev' = [Ev("GenDiffCollected", run[u].repo, u, "empty-diff", "info", {})
                        EXCEPT !.data = diffResult.diffText]
       ELSE /\ run' = [run EXCEPT ![u].pc = "generating"]
            /\ ev' = [Ev("GenDiffCollected", run[u].repo, u, "generating", "none",
                         {"buildCommitMessagePrompt", "generateCommitMessageWithCodex"})
                        EXCEPT !.data = diffResult.diffText]
    /\ UNCHANGED <<norm, cand, diff, cx, platform, config, open, pending, inFlight, head, latest, inputBox, gate>>

\* A catch block that shows nothing.
GenCatchSilent(u, op, result, notify, errorMessage) ==
    /\ pending' = pendingClear(pending, run[u].repo)
    /\ run' = [run EXCEPT ![u] = IdleRun]
    /\ ev' = [Ev(op, run[u].repo, u, result, "none", {}) EXCEPT !.data = errorMessage]

\* The catch block of handleGenerateCommand (lines 336-380)
GenCatch(u, op, result, notify, errorMessage) ==
    /\ pending' = pendingClear(pending, run[u].repo)
    /\ run' = [run EXCEPT ![u] = IdleRun]
    /\ ev' = [Ev(op, run[u].repo, u, result, notify, {}) EXCEPT !.data = errorMessage]

\* A catch block that calls the generator once more.
GenGeneratorRetried(u, kind) ==
    /\ run[u].pc = "generating"
    /\ ev' = Ev("GenGeneratorFailed", run[u].repo, u, kind, "none",
                {"generateCommitMessageWithCodex"})
    /\ UNCHANGED <<norm, cand, diff, cx, platform, config, open, pending, inFlight, head,
                   latest, inputBox, gate, run>>

\* generateCommitMessageWithCodex rejects with a CodexCliError
GenGeneratorFailed(u, kind) ==
    /\ run[u].pc = "generating"
    /\ GenCatch(u, "GenGeneratorFailed", kind, "error", <<>>)
    /\ UNCHANGED <<norm, cand, diff, cx, platform, config, open, inFlight, head, latest, inputBox, gate>>

\* A run that stages whatever autoCommitAfterGenerate says.
GenGeneratedAlwaysStages(u, message) ==
    LET r == run[u].repo IN
    /\ run[u].pc = "generating"
    /\ inputBox' = [inputBox EXCEPT ![r] = message]
    /\ pending' = pendingSet(pending, r, message)
    /\ run' = [run EXCEPT ![u].pc = "staging", ![u].message = message]
    /\ ev' = [Ev("GenGenerated", r, u, "staging", "none",
                 {"stageAllChangesWithGitCli"}) EXCEPT !.data = message]
    /\ UNCHANGED <<norm, cand, diff, cx, platform, config, open, inFlight, head, latest, gate>>

\* generateCommitMessageWithCodex resolves: the input box, the pending entry,
\* and either the stop (auto-commit off) or the call of stageAllChangesWithGitCli
GenGenerated(u, message) ==
    LET r == run[u].repo IN
    /\ run[u].pc = "generating"
    /\ inputBox' = [inputBox EXCEPT ![r] = message]
    /\ pending' = pendingSet(pending, r, message)
    /\ IF ~run[u].auto
       THEN /\ run' = [run EXCEPT ![u] = IdleRun]
            /\ ev' = [Ev("GenGenerated", r, u, "armed", "info", {}) EXCEPT !.data = message]
       ELSE /\ run' = [run EXCEPT ![u].pc = "staging", ![u].message = message]
            /\ ev' = [Ev("GenGenerated", r, u, "staging", "none",
                         {"stageAllChangesWithGitCli"}) EXCEPT !.data = message]
    /\ UNCHANGED <<norm, cand, diff, cx, platform, config, open, inFlight, head, latest, gate>>

\* `git add -A` resolves: the call of repository.commit(message, ...)
GenStageResolved(u) ==
    /\ run[u].pc = "staging"
    /\ run' = [run EXCEPT ![u].pc = "committing"]
    /\ ev' = [Ev("GenStageResolved", run[u].repo, u, "committing", "none",
                 {"repository.commit"}) EXCEPT !.data = run[u].message]
    /\ UNCHANGED <<norm, cand, diff, cx, platform, config, open, pending, inFlight, head, latest, inputBox, gate>>

\* `git add -A` or repository.commit rejects
GenCommitFailed(u, message) ==
    /\ run[u].pc \in {"staging", "committing"}
    /\ GenCatch(u, "GenCommitFailed",
                IF isNoChangesCommitError(message) THEN "no-changes" ELSE "commit-failed",
                IF isNoChangesCommitError(message) THEN "warning" ELSE "error",
                message)
    /\ UNCHANGED <<norm, cand, diff, cx, platform, config, open, inFlight, head, latest, inputBox, gate>>

\* repository.commit resolves: the commit exists, the git extension has fired
\* onDidCommit and the listener has called handleCommitEvent(..., false).
GenCommitResolved(u, s) ==
    LET r == run[u].repo IN
    /\ run[u].pc = "committing"
    /\ latest' = [latest EXCEPT ![r] = run[u].message]
    /\ head' = [head EXCEPT ![r] = HeadAfterCommit(head[r])]
    /\ handleCommitEventBegin(s, r, FALSE)
    /\ run' = [run EXCEPT ![u].pc = "committed"]
    /\ ev' = [Ev("GenCommitResolved", r, u, "commit", "none", GateCalls(r))
                 EXCEPT !.startResult = GateStartResult(r), !.data = run[u].message]
    /\ UNCHANGED <<norm, cand, diff, cx, platform, config, open, pending, inputBox>>

\* await handleCommitEvent(repository, pendingState, output, pushInFlight, true)
GenCallGate(u, s) ==
    LET r == run[u].repo IN
    /\ run[u].pc = "committed"
    /\ handleCommitEventBegin(s, r, TRUE)
    /\ run' = [run EXCEPT ![u] = IdleRun]
    /\ ev' = [Ev("GenCallGate", r, u, "gate", "none", GateCalls(r))
                 EXCEPT !.startResult = GateStartResult(r)]
    /\ UNCHANGED <<norm, cand, diff, cx, platform, config, open, pending, head, latest, inputBox>>

\* ------------------------------------------- command candidates (part_000)

\* How many openai.chatgpt-* extension directories the user profile holds at most.
MaxBundledDirs == 1

\* Names of the extension directories, in readdir order.
BundledDirNames == <<"openai.chatgpt-1", "openai.chatgpt-2", "openai.chatgpt-3">>

\* A command path is a sequence of units: whitespace, directory and file
\* names, and an extension.  "/", the APPDATA directory and the USERPROFILE
\* directory are absolute roots.
AppDataDir == "AppData"
UserProfileDir == "UserProfile"
AbsoluteRoots == {"/", AppDataDir, UserProfileDir}

\* settings.commandPath
ConfiguredCommandPaths ==
    { <<" ">>,
      <<"codex">>,
      <<" ", "codex", " ">>,
      <<"codex", ".CMD">>,
      <<"/", "codex">>,
      <<AppDataDir, "npm", "CODEX">> }

\* String.prototype.toLowerCase on the units of a command path
LowerUnit(unit) ==
    CASE unit = "CODEX" -> "codex"
      [] unit = ".CMD" -> ".cmd"
      [] OTHER -> unit

LowerPath(p) == [i \in 1..Len(p) |-> LowerUnit(p[i])]

\* /\.(cmd|bat|ps1)$/i
HasScriptExtension(p) == p # <<>> /\ LowerUnit(p[Len(p)]) \in {".cmd", ".bat", ".ps1"}

WithoutExtension(p) == SubSeq(p, 1, Len(p) - 1)

\* path.isAbsolute
isAbsolute(p) == p # <<>> /\ Head(p) \in AbsoluteRoots

\* getBundledWindowsCodexCandidates(), for a user profile with n extension directories
getBundledWindowsCodexCandidates(n) ==
    [i \in 1..n |-> <<UserProfileDir, BundledDirNames[i], "codex", ".exe">>]

\* uniqueCommandPaths(paths)
RECURSIVE uniquePathsFrom(_, _, _)
uniquePathsFrom(paths, seen, win) ==
    IF paths = <<>> THEN <<>>
    ELSE LET normalized == IF win THEN LowerPath(Head(paths)) ELSE Head(paths) IN
         IF normalized \in seen
         THEN uniquePathsFrom(Tail(paths), seen, win)
         ELSE <<Head(paths)>> \o uniquePathsFrom(Tail(paths), seen \cup {normalized}, win)

uniqueCommandPaths(paths, win) == uniquePathsFrom(paths, {}, win)

\* buildCommandCandidates(configuredCommandPath) in the environment env
buildCommandCandidates(configuredCommandPath, env) ==
    LET commandPath == Trim(configuredCommandPath)
        win == env.platform = "win32"
        scripts == IF win /\ HasScriptExtension(commandPath)
                   THEN <<WithoutExtension(commandPath),
                          WithoutExtension(commandPath) \o <<".exe">> >>
                   ELSE <<>>
        npm == IF win /\ env.appData
               THEN <<<<AppDataDir, "npm", "codex">>, <<AppDataDir, "npm", "codex", ".exe">> >>
               ELSE <<>>
        bundled == IF win THEN getBundledWindowsCodexCandidates(env.bundledDirs) ELSE <<>>
        candidates == <<commandPath>> \o scripts \o npm \o bundled
        filtered == SelectSeq(candidates,
                        LAMBDA c : c # <<>> /\ (isAbsolute(c) => c \in env.files))
    IN uniqueCommandPaths(filtered, win)

\* The absolute paths fs.existsSync is asked about.
AbsolutePaths ==
    { <<"/", "codex">>, <<AppDataDir, "npm", "CODEX">>, <<AppDataDir, "npm", "codex">>,
      <<AppDataDir, "npm", "codex", ".exe">> }
    \cup {getBundledWindowsCodexCandidates(MaxBundledDirs)[i] : i \in 1..MaxBundledDirs}

\* process.platform, process.env.APPDATA, the extension directories and the file system
Environments ==
    [platform : {"linux", "win32"}, appData : BOOLEAN, bundledDirs : 0..MaxBundledDirs,
     files : SUBSET AbsolutePaths]

NoError == [code |-> "none", path |-> <<>>, details |-> "none"]

\* new CodexCliError(code, message naming the path, details)
CodexCliError(code, path, details) == [code |-> code, path |-> path, details |-> details]

IdleCandidates ==
    [pc |-> "idle", configured |-> <<>>,
     env |-> [platform |-> "linux", appData |-> FALSE, bundledDirs |-> 0, files |-> {}],
     candidates |-> <<>>, index |-> 0, spawned |-> <<>>, results |-> <<>>,
     lastNotFoundError |-> NoError, outcome |-> NoError]

CalledCandidates(configured, env) ==
    [IdleCandidates EXCEPT !.pc = "called", !.configured = configured, !.env = env]

CandUnchanged ==
    UNCHANGED <<platform, config, open, pending, inFlight, head, latest, inputBox, gate,
                run, ev, diff, cx, norm>>

\* const commandCandidates = buildCommandCandidates(options.commandPath) (line 922)
CandBuild ==
    /\ cand.pc = "called"
    /\ cand' = [cand EXCEPT !.pc = "looping", !.index = 1,
                   !.candidates = buildCommandCandidates(cand.configured, cand.env)]
    /\ CandUnchanged

\* The loop takes the next candidate and calls runCodexWithCommand (lines 925-927)
CandRun ==
    /\ cand.pc = "looping"
    /\ cand.index <= Len(cand.candidates)
    /\ cand' = [cand EXCEPT !.pc = "awaiting",
                   !.spawned = Append(@, cand.candidates[cand.index])]
    /\ CandUnchanged

\* runCodexWithCommand resolves: return await (line 927)
CandResolved ==
    /\ cand.pc = "awaiting"
    /\ cand' = [cand EXCEPT !.pc = "returned", !.results = Append(@, "resolved"),
                   !.outcome = CodexCliError("resolved", cand.candidates[cand.index], "none")]
    /\ CandUnchanged

\* The next iteration after a not-found rejection that overwrites nothing.
CandNotFoundKeepsFirst(details) ==
    /\ cand.pc = "awaiting"
    /\ cand' = [cand EXCEPT !.pc = "looping", !.index = @ + 1,
                   !.results = Append(@, "not-found"),
                   !.lastNotFoundError =
                       IF @ = NoError
                       THEN CodexCliError("not-found", cand.candidates[cand.index], details)
                       ELSE @]
    /\ CandUnchanged

\* runCodexWithCommand rejects with not-found, from the synchronous spawn
\* throw (details set, lines 781-789) or the error listener (lines 853-856):
\* lastNotFoundError = error; continue (lines 929-933)
CandNotFound(details) ==
    /\ cand.pc = "awaiting"
    /\ cand' = [cand EXCEPT !.pc = "looping", !.index = @ + 1,
                   !.results = Append(@, "not-found"),
                   !.lastNotFoundError =
                       CodexCliError("not-found", cand.candidates[cand.index], details)]
    /\ CandUnchanged

\* A rejection of another kind that moves on to the next candidate.
CandOtherErrorSkipped(kind) ==
    /\ cand.pc = "awaiting"
    /\ kind \in CodexErrorKinds \ {"not-found"}
    /\ cand' = [cand EXCEPT !.pc = "looping", !.index = @ + 1, !.results = Append(@, kind)]
    /\ CandUnchanged

\* runCodexWithCommand rejects with another kind: throw error (line 935)
CandOtherError(kind) ==
    /\ cand.pc = "awaiting"
    /\ kind \in CodexErrorKinds \ {"not-found"}
    /\ cand' = [cand EXCEPT !.pc = "threw", !.results = Append(@, kind),
                   !.outcome = CodexCliError(kind, cand.candidates[cand.index], "none")]
    /\ CandUnchanged

\* The loop is over without a return (lines 939-947)
CandExhausted ==
    /\ cand.pc = "looping"
    /\ cand.index > Len(cand.candidates)
    /\ cand' = [cand EXCEPT !.pc = "threw",
                   !.outcome =
                       IF cand.lastNotFoundError # NoError
                       THEN cand.lastNotFoundError
                       ELSE CodexCliError("not-found", cand.configured,
                                          "No executable candidate could be resolved.")]
    /\ CandUnchanged

\* ------------------------------------------------------------- specification

Configs ==
    [includeUntracked : {TRUE}, diffMaxChars : {12000},
     autoCommitAfterGenerate : BOOLEAN, pushRemote : {"origin"}, pushBranch : {"main"}]

\* The extension once activate() has returned, whatever the configuration.
InitActivated ==
    /\ platform = "linux"
    /\ open = {"r1"}
    /\ pending = [k \in AllKeys |-> NoText]
    /\ inFlight = {}
    /\ head = [r \in AllRepos |-> [name |-> "main", commit |-> FALSE]]
    /\ latest = [r \in AllRepos |-> NoText]
    /\ inputBox = [r \in AllRepos |-> <<>>]
    /\ gate = [s \in GateSlots |-> IdleGate]
    /\ run = [u \in RunSlots |-> IdleRun]
    /\ ev = Ev("Init", None, 0, "none", "none", {})

Init ==
    /\ config \in Configs
    /\ InitActivated
    /\ diff = IdleDiff
    /\ cx = IdleCodex
    /\ norm = IdleNormalize
    /\ cand = IdleCandidates

GateStep(s) ==
    \/ GateHeadLookupResolved(s)
    \/ GateHeadLookupFailed(s)
    \/ GateHashLookupResolved(s)
    \/ GateHashLookupFailed(s)
    \/ GatePushResolved(s)
    \/ GatePushFailed(s)

GateNext == \E s \in GateSlots : GateStep(s)

EnvNext ==
    \E r \in AllRepos :
        \/ \E m \in ManualMsgs : \E s \in BeginSlots(r) : CommitOccurs(r, m, s)
        \/ \E h \in HeadValues : HeadChanged(r, h)

GenNext ==
    \/ \E u \in RunSlots :
        \/ \E r \in AllRepos : GenStart(u, r)
        \/ GenDiffFailed(u)
        \/ \E t \in RunTrackedDiffs : \E l \in RunUntrackedOutputs : GenDiffCollected(u, t, l)
        \/ \E kind \in CodexErrorKinds : GenGeneratorFailed(u, kind)
        \/ \E m \in GeneratedMsgs : GenGenerated(u, m)
        \/ GenStageResolved(u)
        \/ \E e \in GitErrorMessages : GenCommitFailed(u, e)
        \/ \E s \in BeginSlots(run[u].repo) : GenCommitResolved(u, s)
        \/ \E s \in BeginSlots(run[u].repo) : GenCallGate(u, s)

Next == GateNext \/ EnvNext \/ GenNext

Spec == Init /\ [][Next]_vars

\* The diff collector alone, under every configured cap.
DiffConfigs ==
    [includeUntracked : BOOLEAN,
     diffMaxChars : {1, MinDiffMaxChars, MinDiffMaxChars + 1, DefaultDiffMaxChars},
     autoCommitAfterGenerate : {TRUE}, pushRemote : {"origin"}, pushBranch : {"main"}]

InitDiff ==
    /\ config \in DiffConfigs
    /\ InitActivated
    /\ diff = IdleDiff
    /\ cx = IdleCodex
    /\ norm = IdleNormalize
    /\ cand = IdleCandidates

NextDiff ==
    \/ DiffStart
    \/ DiffHeadDiffFailed
    \/ DiffFallbackFailed
    \/ \E stdout \in DiffTrackedOutputs : DiffTrackedResolved(stdout)
    \/ \E stdout \in DiffUntrackedOutputs : DiffUntrackedResolved(stdout)
    \/ DiffUntrackedFailed

SpecDiff == InitDiff /\ [][NextDiff]_vars

\* One call of the generator client, for every subprocess.
InitCodex ==
    /\ config \in {c \in Configs : c.autoCommitAfterGenerate}
    /\ InitActivated
    /\ diff = IdleDiff
    /\ cx \in {NewCall(p[1], p[2]) : p \in Subprocesses}
    /\ norm = IdleNormalize
    /\ cand = IdleCandidates

NextCodex ==
    \/ CodexSpawn
    \/ \E errno \in {"ENOENT", "EACCES"} : CodexSpawnFailed(errno)
    \/ \E n \in 1..Len(cx.out) : CodexStdoutData(n)
    \/ \E n \in 1..Len(cx.err) : CodexStderrData(n)
    \/ \E killFails \in BOOLEAN : CodexTimerFires(killFails)
    \/ \E code \in {"0", "1", "null", "-2"} : CodexClose(code)

SpecCodex == InitCodex /\ [][NextCodex]_vars

\* The normalizer alone, on every raw text.
InitNormalize ==
    /\ config \in {c \in Configs : c.autoCommitAfterGenerate}
    /\ InitActivated
    /\ diff = IdleDiff
    /\ cx = IdleCodex
    /\ norm \in {[pc |-> "called", raw |-> raw, result |-> NoText] : raw \in RawTexts}
    /\ cand = IdleCandidates

NextNormalize == NormalizeReturns

SpecNormalize == InitNormalize /\ [][NextNormalize]_vars

\* One call of the candidate-list generator, for every configured path and
\* environment, each attempt ending in any way runCodexWithCommand can end.
InitCandidates ==
    /\ config \in {c \in Configs : c.autoCommitAfterGenerate}
    /\ InitActivated
    /\ diff = IdleDiff
    /\ cx = IdleCodex
    /\ norm = IdleNormalize
    /\ cand \in {CalledCandidates(p, e) : p \in ConfiguredCommandPaths, e \in Environments}

NextCandidates ==
    \/ CandBuild
    \/ CandRun
    \/ CandResolved
    \/ \E details \in {"none", "spawn threw"} : CandNotFound(details)
    \/ \E kind \in CodexErrorKinds \ {"not-found"} : CandOtherError(kind)
    \/ CandExhausted

SpecCandidates == InitCandidates /\ [][NextCandidates]_vars

\* The child has emitted 'close', or was never spawned.
ChildGone == cx.pc \notin {"running", "failed"}

\* The timer fires unless it is cleared first, and the child closes: the
\* subprocess exits by itself or after the kill.  'close' can arrive exactly
\* while the child is there and the child is gone after it, so that weak
\* fairness of CodexClose is the condition []<>ChildGone.
SpecCodexFair ==
    /\ SpecCodex
    /\ WF_vars(\E killFails \in BOOLEAN : CodexTimerFires(killFails))
    /\ []<>ChildGone

\* Two repositories open at once, with one generated message and one commit
\* message; the catch block of a run is entered from the generator.
InitRepos ==
    /\ config \in Configs
    /\ platform = "linux"
    /\ open = AllRepos
    /\ pending = [k \in AllKeys |-> NoText]
    /\ inFlight = {}
    /\ head = [r \in AllRepos |-> [name |-> "main", commit |-> FALSE]]
    /\ latest = [r \in AllRepos |-> NoText]
    /\ inputBox = [r \in AllRepos |-> <<>>]
    /\ gate = [s \in GateSlots |-> IdleGate]
    /\ run = [u \in RunSlots |-> IdleRun]
    /\ ev = Ev("Init", None, 0, "none", "none", {})
    /\ diff = IdleDiff
    /\ cx = IdleCodex
    /\ norm = IdleNormalize
    /\ cand = IdleCandidates

NextRepos ==
    \/ GateNext
    \/ \E r \in AllRepos : \E s \in BeginSlots(r) : CommitOccurs(r, <<"a">>, s)
    \/ \E u \in RunSlots :
        \/ \E r \in AllRepos : GenStart(u, r)
        \/ GenDiffCollected(u, <<"+", "x", "\n">>, <<>>)
        \/ GenGeneratorFailed(u, "timeout")
        \/ GenGenerated(u, <<"a">>)
        \/ GenStageResolved(u)
        \/ \E s \in BeginSlots(run[u].repo) : GenCommitResolved(u, s)
        \/ \E s \in BeginSlots(run[u].repo) : GenCallGate(u, s)

SpecRepos == InitRepos /\ [][NextRepos]_vars

\* ------------------------------------- the pending-state registry on its own

\* How many calls of set, get and clear a behaviour makes.
MaxRegistryCalls == 3

\* The repository objects the registry is called with.
RegistryRepos == AllRepos \cup {"r3", "r4"}

\* Every key one of them can have, on either platform.
RegistryKeys ==
    {RemoveDotSegments(RootPath(r)) : r \in RegistryRepos}
    \cup {[i \in 1..Len(RemoveDotSegments(RootPath(r))) |->
              LowerSegment(RemoveDotSegments(RootPath(r))[i])] : r \in RegistryRepos}

\* The calls made so far, in order, each with what it returned.
RegistryLog == ev.data

RegistryCall(op, r, message, returned) ==
    /\ Len(RegistryLog) < MaxRegistryCalls
    /\ ev' = [Ev(op, r, 0, "none", "none", {}) EXCEPT
                !.data = Append(RegistryLog, [op |-> op, repo |-> r, message |-> message,
                                              returned |-> returned])]
    /\ UNCHANGED <<platform, config, open, inFlight, head, latest, inputBox, gate, run,
                   diff, cx, norm, cand>>

\* A set that files the entry under the path as given.
RegistrySetByRootPath(r, message) ==
    /\ pending' = [pending EXCEPT ![RootPath(r)] = message]
    /\ RegistryCall("set", r, message, NoText)

\* PendingCommitState.set(repository, {message, createdAt})
RegistrySet(r, message) ==
    /\ pending' = pendingSet(pending, r, message)
    /\ RegistryCall("set", r, message, NoText)

\* PendingCommitState.get(repository)
RegistryGet(r) ==
    /\ pending' = pending
    /\ RegistryCall("get", r, NoText, pendingGet(r))

\* PendingCommitState.clear(repository)
RegistryClear(r) ==
    /\ pending' = pendingClear(pending, r)
    /\ RegistryCall("clear", r, NoText, NoText)

InitRegistry ==
    /\ config \in {c \in Configs : c.autoCommitAfterGenerate /\ c.includeUntracked}
    /\ platform \in {"linux", "win32"}
    /\ open = {}
    /\ pending = [k \in RegistryKeys |-> NoText]
    /\ inFlight = {}
    /\ head = [r \in AllRepos |-> [name |-> "main", commit |-> FALSE]]
    /\ latest = [r \in AllRepos |-> NoText]
    /\ inputBox = [r \in AllRepos |-> <<>>]
    /\ gate = [s \in GateSlots |-> IdleGate]
    /\ run = [u \in RunSlots |-> IdleRun]
    /\ ev = Ev("Init", None, 0, "none", "none", {})
    /\ diff = IdleDiff
    /\ cx = IdleCodex
    /\ norm = IdleNormalize
    /\ cand = IdleCandidates

NextRegistry ==
    \E r \in RegistryRepos :
        \/ \E message \in {<<"a">>, <<"b">>} : RegistrySet(r, message)
        \/ RegistryGet(r)
        \/ RegistryClear(r)

SpecRegistry == InitRegistry /\ [][NextRegistry]_vars

\* One generation whose diff collection is followed git call by git call:
\* handleGenerateCommand awaits collectDiffForPrompt (lines 260-273), so the
\* run leaves its collecting step when the collection has rejected or
\* resolved, and goes on with the result the collection resolved with.
NextCollect ==
    \/ \E u \in RunSlots : \E r \in open : diff.pc = "idle" /\ GenStart(u, r)
    \/ (\E u \in RunSlots : run[u].pc = "collecting") /\ diff.pc = "idle" /\ DiffStart
    \/ DiffHeadDiffFailed
    \/ DiffFallbackFailed
    \/ \E stdout \in DiffTrackedOutputs : DiffTrackedResolved(stdout)
    \/ \E stdout \in DiffUntrackedOutputs : DiffUntrackedResolved(stdout)
    \/ DiffUntrackedFailed
    \/ \E u \in RunSlots : diff.pc = "failed" /\ GenDiffFailed(u)
    \/ \E u \in RunSlots : \E lsFiles \in DiffUntrackedOutputs :
          /\ diff.pc = "done"
          /\ getSettings.includeUntracked =>
                untrackedFilesOf(lsFiles) = diff.result.untrackedFiles
          /\ GenDiffCollected(u, diff.result.trackedDiff, lsFiles)

SpecCollect == InitDiff /\ [][NextCollect]_vars

\* Every await of a gate evaluation settles: getCommit and push return.
SpecFair == Spec /\ \A s \in GateSlots : WF_vars(GateStep(s))

\* ------------------------------------------------------------------- claims

ActiveGates == {s \in GateSlots : gate[s].pc # "idle"}

\* The steps in which handleCommitEvent is called.
NotificationOps == {"CommitOccurs", "GenCommitResolved", "GenCallGate"}

\* The results of the steps that leave the try block of handleCommitEvent.
GateExitResults ==
    {"no-commit", "lookup-failed", "msg-mismatch", "branch-mismatch", "pushed", "push-failed"}

PushCalled == "repository.push" \in ev.calls

\* C1: whenever a step calls repository.push, the evaluation that calls it had
\* read a pending entry, the trimmed first line of the latest commit's message
\* is that entry's trimmed message, character for character, and the name of
\* the current branch ('' when HEAD has none) is the configured pushBranch.
C1_PushOnlyOnMatch ==
    PushCalled =>
        LET g == gate[ev.slot] IN
        /\ g.pending # NoText
        /\ firstLine(latest[ev.repo]) = Trim(g.pending)
        /\ currentBranchName(head[ev.repo]) = getSettings.pushBranch

\* A push after a commit whose message is not the pending text itself: its
\* first line, trimmed, is.
C1_Witness == PushCalled /\ latest[ev.repo] # gate[ev.slot].pending

\* C2: the step in which a gate evaluation that had acquired the guard ends,
\* by whichever path, leaves no pending entry for the repository and the
\* repository's key out of the in-flight set.
C2_ExitClearsPendingAndGuard ==
    [][\A s \in GateSlots :
          (gate[s].pc # "idle" /\ gate'[s].pc = "idle") =>
              /\ pending'[gate[s].key] = NoText
              /\ gate[s].key \notin inFlight']_vars

\* An evaluation ended by a failed push while a newer pending entry was absent
\* and none is left.
C2_Witness ==
    /\ ev.result = "push-failed"
    /\ pendingGet(ev.repo) = NoText
    /\ repositoryKey(ev.repo) \notin inFlight

\* C3: no two gate evaluations of one repository key are in progress at once,
\* an evaluation calls push at most once, and a notification that arrives
\* while an evaluation of its key is in progress starts nothing and pushes
\* nothing.
C3_OneEvaluationPerKey ==
    /\ \A s, t \in ActiveGates : gate[s].key = gate[t].key => s = t
    /\ \A s \in GateSlots : gate[s].pushes <= 1
    /\ ev.op \in NotificationOps => ~PushCalled
    /\ ev.startResult = "inFlight" => Cardinality(ActiveGates) = 1

\* A commit notification dropped because an evaluation is awaiting its push.
C3_Witness ==
    /\ ev.startResult = "inFlight"
    /\ \E s \in ActiveGates : gate[s].pc = "awaitPush" /\ gate[s].repo = ev.repo

\* C4 as stated: while the push of a gate evaluation has not settled, the
\* pending entry of the repository is still there.
C4_PendingKeptUntilPushSettled ==
    \A s \in GateSlots : gate[s].pc = "awaitPush" => pending[gate[s].key] # NoText

\* The steps of the catch block of handleGenerateCommand.
GenCatchOps == {"GenGeneratorFailed", "GenCommitFailed"}

\* C4 amended: a gate evaluation whose pending message is the latest commit's
\* first line and whose branch is the target calls push, once, with the
\* configured remote and branch and setUpstream false; the evaluation itself
\* clears the pending entry only when that push has settled (until then only
\* the catch block of a handleGenerateCommand run on the repository removes it).
C4_PushOnceThenClear ==
    [][\A s \in GateSlots :
          /\ ( /\ gate[s].pc \in {"awaitHead", "awaitHash"}
               /\ ev'.op \in {"GateHeadLookupResolved", "GateHashLookupResolved"}
               /\ ev'.slot = s
               /\ firstLine(latest[gate[s].repo]) = Trim(gate[s].pending)
               /\ currentBranchName(head[gate[s].repo]) = getSettings.pushBranch )
             => /\ gate'[s].pc = "awaitPush"
                /\ gate'[s].pushes = 1
                /\ ev'.pushArgs = <<getSettings.pushRemote, getSettings.pushBranch, FALSE>>
          /\ gate'[s].pc = "awaitPush" =>
                /\ gate'[s].pushes = 1
                /\ (pending[gate'[s].key] # NoText /\ pending'[gate'[s].key] = NoText)
                      => ev'.op \in GenCatchOps]_vars

\* A push was called and the pending entry is still there.
C4_Witness ==
    /\ PushCalled
    /\ ev.pushArgs = <<"origin", "main", FALSE>>
    /\ pendingGet(ev.repo) = gate[ev.slot].pending

\* A commit was made whose first line is the pending message, on the target branch.
MatchingCommit(r) ==
    /\ ev.op \in {"CommitOccurs", "GenCommitResolved"}
    /\ ev.repo = r
    /\ pendingGet(r) # NoText
    /\ firstLine(ev.data) = Trim(pendingGet(r))
    /\ currentBranchName(head[r]) = getSettings.pushBranch

\* A push was attempted, or a getCommit call did not return a commit, or the
\* user moved HEAD away in the meantime.
PushAttemptedOrLookupFailed(r) ==
    /\ ev.repo = r
    /\ \/ PushCalled
       \/ ev.result \in {"no-commit", "lookup-failed", "fallback"}
       \/ ev.op = "HeadChanged"

\* C5: every commit made while the pending message is its first line and the
\* branch is the target is followed by a push attempt (getCommit and push
\* returning, HEAD staying where it is).
C5_MatchingCommitIsPushed ==
    \A r \in AllRepos : MatchingCommit(r) ~> PushAttemptedOrLookupFailed(r)

\* C6: the step that finds the collected diffText empty calls neither the
\* prompt builder nor the generator nor anything else, ends the run, and
\* leaves the input box, the pending registry, the commits and the gate as
\* they were.
C6_EmptyDiffStops ==
    [][(ev'.op = "GenDiffCollected" /\ ev'.data = <<>>) =>
          /\ ev'.calls = {}
          /\ run'[ev'.slot].pc = "idle"
          /\ UNCHANGED <<pending, inputBox, latest, head, gate, inFlight>>]_vars

\* An empty diff on a repository that is armed: the entry stays.
C6_Witness ==
    /\ ev.op = "GenDiffCollected"
    /\ ev.data = <<>>
    /\ pendingGet(ev.repo) # NoText

\* The text truncateDiffText should return for a text and a cap that it exceeds.
CutAndMarked(text, cap) ==
    [i \in 1..(cap + Len(TruncationMarker)) |->
        IF i <= cap THEN text[i] ELSE TruncationMarker[i - cap]]

\* C7: a composed text longer than the cap comes back as its first cap
\* characters followed by the truncation marker, cap + marker length long,
\* with wasTruncated true; a composed text at or under the cap comes back
\* unchanged with wasTruncated false.
C7_TruncateAtCap ==
    (diff.pc = "done" /\ diff.combined # <<>>) =>
        IF Len(diff.combined) > diff.maxChars
        THEN /\ diff.result.diffText = CutAndMarked(diff.combined, diff.maxChars)
             /\ Len(diff.result.diffText) = diff.maxChars + Len(TruncationMarker)
             /\ diff.result.wasTruncated
        ELSE /\ diff.result.diffText = diff.combined
             /\ ~diff.result.wasTruncated

\* A composed text exactly as long as the cap, returned as it is.
C7_Witness ==
    /\ diff.pc = "done"
    /\ Len(diff.combined) = diff.maxChars
    /\ diff.result.diffText = diff.combined

\* C8 as stated: the diffText of every result is at most maxChars long.
C8_DiffTextWithinMaxChars ==
    diff.pc = "done" => Len(diff.result.diffText) <= diff.maxChars

\* C8 amended: the diffText of every result is at most maxChars long when it
\* was not truncated, and exactly maxChars plus the length of the truncation
\* marker when it was.
C8_DiffTextWithinMaxCharsPlusMarker ==
    diff.pc = "done" =>
        IF diff.result.wasTruncated
        THEN Len(diff.result.diffText) = diff.maxChars + Len(TruncationMarker)
        ELSE Len(diff.result.diffText) <= diff.maxChars

\* A truncated result whose cut fell inside the list of untracked files.
C8_Witness ==
    /\ diff.pc = "done"
    /\ diff.result.wasTruncated
    /\ Len(diff.result.untrackedFiles) > 0
    /\ Len(diff.result.diffText) > diff.maxChars

\* A completed agent_message event is among the lines of the text, the last
\* one included whether terminated or not.
HasCompletedAgentMessage(text) ==
    LET lines == SplitLines(text) IN
    \E i \in 1..Len(lines) :
        LET parsed == ParseJson(Trim(lines[i])) IN
        parsed.kind = "object" /\ isCompletedAgentMessage(parsed.event)

\* One of the two texts of a model-access failure is in the text, in any case.
HasModelAccessText(text) ==
    \E i \in 1..(Len(text) - 1) :
        toLowerCase(SubSeq(text, i, i + 1)) \in {<<"x", "n">>, <<"n", "t">>}

\* The subprocess ran and the child emitted close with this call unsettled.
ClosedUnsettledBefore == cx.pc = "closed" /\ cx.settledBy # "error"

\* C9: when the subprocess closes with a non-zero exit code and the timer has
\* not fired, the call is rejected with model-access if stderr and stdout
\* together hold one of the two model-access texts, and with process-failed
\* otherwise.
C9_NonZeroExitClassified ==
    (ClosedUnsettledBefore /\ cx.closeCode # "0" /\ ~cx.timedOut) =>
        cx.outcome.kind =
            IF HasModelAccessText(cx.stderrRaw \o <<"\n">> \o cx.stdoutRaw)
            THEN "model-access"
            ELSE "process-failed"

\* C10: when the subprocess exits with code 0, the timer has not fired and no
\* completed agent_message event is among the lines of stdout, the call is
\* rejected with parse-failed.
C10_NoAgentMessageIsParseFailed ==
    (ClosedUnsettledBefore /\ cx.closeCode = "0" /\ ~cx.timedOut
        /\ ~HasCompletedAgentMessage(cx.stdoutRaw)) =>
        cx.outcome.kind = "parse-failed"

\* The text of the last line of the text that is a completed agent_message
\* event, NoText when there is none.
RECURSIVE LastAgentTextOf(_)
LastAgentTextOf(lines) ==
    IF lines = <<>> THEN NoText
    ELSE LET parsed == ParseJson(Trim(lines[Len(lines)])) IN
         IF parsed.kind = "object" /\ isCompletedAgentMessage(parsed.event)
         THEN parsed.event.text
         ELSE LastAgentTextOf(SubSeq(lines, 1, Len(lines) - 1))

LastAgentText(text) == LastAgentTextOf(SplitLines(text))

\* C11: when the subprocess exits with code 0 (the timer not fired, no
\* listener having thrown) and the last completed agent_message of stdout
\* normalizes to the empty text, the call is rejected with empty-response.
C11_EmptyMessageIsEmptyResponse ==
    (ClosedUnsettledBefore /\ cx.closeCode = "0" /\ ~cx.timedOut /\ cx.uncaught = 0
        /\ HasCompletedAgentMessage(cx.stdoutRaw)
        /\ normalizeGeneratedMessage(LastAgentText(cx.stdoutRaw)) = <<>>) =>
        cx.outcome.kind = "empty-response"

\* C12: a call whose timer fired before it was settled is rejected with
\* timeout, whatever was buffered, whatever the exit code, and whichever of
\* the close and error listeners settles it (no listener having thrown).
C12_TimedOutCallFailsWithTimeout ==
    (cx.timedOut /\ cx.settled /\ cx.uncaught = 0) => cx.outcome.kind = "timeout"

\* The first line of the raw text that is not blank, trimmed ('' if none).
FirstNonBlankLine(raw) ==
    LET lines == SplitLines(raw)
        nonBlank == {i \in 1..Len(lines) : Trim(lines[i]) # <<>>} IN
    IF nonBlank = {} THEN <<>>
    ELSE Trim(lines[CHOOSE i \in nonBlank : \A j \in nonBlank : i <= j])

AllQuotes(s) == \A i \in 1..Len(s) : s[i] \in QuoteChars

\* line without the quote characters it begins with and ends with: each
\* stretch of it between quote characters only that has no quote character
\* at either end.
QuoteStripped(line) ==
    {SubSeq(line, i + 1, j) : <<i, j>> \in
        {p \in (0..Len(line)) \X (0..Len(line)) :
            /\ p[1] <= p[2]
            /\ AllQuotes(SubSeq(line, 1, p[1]))
            /\ AllQuotes(SubSeq(line, p[2] + 1, Len(line)))
            /\ p[1] < p[2] => (line[p[1] + 1] \notin QuoteChars /\ line[p[2]] \notin QuoteChars)}}

\* line without one quote character at each end, where there is one.
OneLayerOff(line) ==
    LET from == IF line # <<>> /\ line[1] \in QuoteChars THEN 2 ELSE 1
        to == IF Len(line) >= from /\ line[Len(line)] \in QuoteChars
              THEN Len(line) - 1 ELSE Len(line) IN
    SubSeq(line, from, to)

\* C13 as stated: the result is the first non-blank line, trimmed, without
\* exactly one layer of leading and trailing quote characters.
C13_OneQuoteLayerRemoved ==
    norm.pc = "returned" => norm.result = Trim(OneLayerOff(FirstNonBlankLine(norm.raw)))

\* C13 amended: the result is the first line that is not blank after
\* trimming, trimmed, without all the quote characters it begins with and all
\* those it ends with, and trimmed again.
C13_QuoteRunsRemoved ==
    norm.pc = "returned" =>
        norm.result \in {Trim(mid) : mid \in QuoteStripped(FirstNonBlankLine(norm.raw))}

\* A text behind a blank line and two quote characters.
C13_Witness ==
    /\ norm.pc = "returned"
    /\ norm.raw = <<"\n", "\"", "'", "a">>
    /\ norm.result = <<"a">>

\* C14: the step in which generateCommitMessageWithCodex rejects, with any
\* CodexCliError code, ends the run: it leaves the input box as it was, leaves
\* no pending entry for the repository, calls nothing (no staging, no commit,
\* no gate, no push, no second generation) and leaves commits and gate alone.
C14_GeneratorFailureAborts ==
    [][ev'.op = "GenGeneratorFailed" =>
          /\ ev'.result \in CodexErrorKinds
          /\ ev'.calls = {}
          /\ run'[ev'.slot] = IdleRun
          /\ pending'[repositoryKey(ev'.repo)] = NoText
          /\ UNCHANGED <<inputBox, latest, head, gate, inFlight>>]_vars

\* A generation that timed out on a repository whose input box holds the
\* message of an earlier generation.
C14_Witness ==
    /\ ev.op = "GenGeneratorFailed"
    /\ ev.result = "timeout"
    /\ inputBox[ev.repo] \in GeneratedMsgs
    /\ pendingGet(ev.repo) = NoText

\* The results of the steps in which a generation run or a gate evaluation fails.
FailureResults ==
    CodexErrorKinds
    \cup {"diff-failed", "commit-failed", "no-changes", "no-commit", "lookup-failed",
          "push-failed"}

\* The vscode.window.show*Message calls that report a failure.
FailureNotifications == {"error", "warning"}

AllNotFound == \A i \in 1..Len(cand.results) : cand.results[i] = "not-found"

\* C16: the candidates are spawned in list order, each after not-found
\* failures only; a success is returned and an error of another kind is thrown
\* at once, as the outcome of the call, with no further candidate spawned.
C16_FallThroughOnlyOnNotFound ==
    /\ cand.spawned = SubSeq(cand.candidates, 1, Len(cand.spawned))
    /\ \A i \in 1..Len(cand.spawned) : \A j \in 1..(i - 1) : cand.results[j] = "not-found"
    /\ \A i \in 1..Len(cand.results) :
          cand.results[i] # "not-found" =>
              /\ i = Len(cand.spawned)
              /\ cand.pc = (IF cand.results[i] = "resolved" THEN "returned" ELSE "threw")
              /\ cand.outcome.code = cand.results[i]
              /\ cand.outcome.path = cand.spawned[i]

\* The second of at least three candidates times out: the call throws the
\* timeout and the third is never spawned.
C16_Witness ==
    /\ cand.pc = "threw"
    /\ cand.results = <<"not-found", "timeout">>
    /\ Len(cand.candidates) >= 3
    /\ Len(cand.spawned) = 2

\* C17 as stated: when every candidate fails with not-found the call throws
\* the not-found error of the first candidate; with no candidate it throws a
\* not-found error as well.
C17_FirstNotFoundSurfaced ==
    (cand.pc = "threw" /\ AllNotFound) =>
        /\ cand.outcome.code = "not-found"
        /\ cand.candidates # <<>> => cand.outcome.path = cand.candidates[1]

\* C17 amended: when every candidate fails with not-found the call throws the
\* not-found error of the last candidate of the list; with no candidate it
\* throws a not-found error naming the configured path.
C17_LastNotFoundSurfaced ==
    (cand.pc = "threw" /\ AllNotFound) =>
        /\ cand.outcome.code = "not-found"
        /\ Len(cand.spawned) = Len(cand.candidates)
        /\ IF cand.candidates # <<>>
           THEN cand.outcome.path = cand.candidates[Len(cand.candidates)]
           ELSE cand.outcome =
                    CodexCliError("not-found", cand.configured,
                                  "No executable candidate could be resolved.")

\* Two or more candidates, none of them found.
C17_Witness ==
    /\ cand.pc = "threw"
    /\ AllNotFound
    /\ Len(cand.candidates) >= 2
    /\ cand.outcome.path = cand.candidates[Len(cand.candidates)]

\* What the caller and the timer see of a call's settlement.
Settlement(c) == <<c.settled, c.settledBy, c.outcome, c.clears, c.settlements>>

\* C18: whatever the order of the timer, 'error' and 'close', resolve or
\* reject is called at most once, by the listener of the first of 'error' and
\* 'close' to arrive, together with the one clearTimeout call of the
\* invocation; after that nothing about the settlement changes.
C18_SettledExactlyOnce ==
    /\ [](/\ cx.settlements <= 1
          /\ cx.clears = (IF cx.settled THEN 1 ELSE 0)
          /\ cx.settled <=> cx.arrived # <<>>
          /\ cx.settled => cx.settledBy = cx.arrived[1] /\ ~cx.timerArmed
          /\ cx.outcome # Pending <=> cx.settlements = 1
          /\ cx.settlements = 1 => cx.settled)
    /\ [][cx.settled => Settlement(cx') = Settlement(cx)]_vars

\* The timer fired, the kill failed and 'error' settled the call; the 'close'
\* that followed changed nothing.
C18_Witness ==
    /\ cx.arrived = <<"error", "close">>
    /\ cx.timedOut
    /\ cx.settledBy = "error"
    /\ cx.outcome = Rejected("process-failed")
    /\ cx.clears = 1

\* C19: a call whose subprocess was spawned eventually settles: the promise
\* is resolved or rejected.
C19_SpawnedCallSettles == (cx.pc = "running") ~> (cx.outcome # Pending)

\* What the subprocess has written to stdout up to the last line end.
CompleteStdout(c) == SubSeq(c.stdoutRaw, 1, Len(c.stdoutRaw) - Len(c.stdoutBuffer))

\* C20: whatever the lines of stdout and however they arrive, no listener
\* throws, the tracked message is the text of the last complete line that is
\* a completed agent_message event, and a call that resolves resolves with
\* that text normalized.
C20_LastAgentMessageTracked ==
    cx.pc \in {"running", "closed"} =>
        /\ cx.uncaught = 0
        /\ cx.lastAgentMessage = LastAgentText(CompleteStdout(cx))
        /\ cx.outcome.kind = "resolved" =>
              cx.outcome.message = normalizeGeneratedMessage(LastAgentText(cx.stdoutRaw))

\* The message tracked when the text arrives as a single chunk.
TrackedInOneChunk(text) == processStdoutLines(IdleCodex, text).lastAgentMessage

\* C21: at close the tracked message is the one the same stream gives when
\* it arrives as one newline-terminated chunk, however it was split into
\* chunks and whether or not its last line was terminated.
C21_ChunkingIndependent ==
    (cx.pc = "closed" /\ cx.settledBy = "close") =>
        cx.lastAgentMessage = TrackedInOneChunk(cx.stdoutRaw)

\* The awaits of a run with auto-commit, in the order of the code, and what
\* the run calls when it reaches each.
RunOrder == <<"idle", "collecting", "generating", "staging", "committing", "committed">>

RunCalls ==
    [collecting |-> {"collectDiffForPrompt"},
     generating |-> {"buildCommitMessagePrompt", "generateCommitMessageWithCodex"},
     staging |-> {"stageAllChangesWithGitCli"},
     committing |-> {"repository.commit"}]

\* C22: a run with auto-commit moves from each step to the next one only (or
\* ends), in the order collect diff, build prompt and generate, write the
\* input box and the pending entry and stage, commit with the generated
\* message, call the gate; each call is made in the step in which the one
\* before has resolved.  The evaluations started by the commit of the run or
\* by its direct call start at getCommit, in the step in which the commit
\* resolves or later, and no such step calls push.
C22_RunStepsInOrder ==
    [][/\ \A u \in RunSlots :
            (run[u].auto \/ run[u].pc = "idle") /\ run'[u].pc # run[u].pc =>
                \/ run'[u] = IdleRun
                \/ \E i \in 1..(Len(RunOrder) - 1) :
                      /\ run[u].pc = RunOrder[i]
                      /\ run'[u].pc = RunOrder[i + 1]
                      /\ ev'.slot = u
                      /\ i <= 4 => ev'.calls = RunCalls[RunOrder[i + 1]]
                      /\ i = 3 => /\ inputBox'[run[u].repo] = ev'.data
                                  /\ pendingGet(run[u].repo)' = ev'.data
                                  /\ run'[u].message = ev'.data
                      /\ i = 4 => ev'.data = run[u].message
                      /\ i = 5 => /\ latest'[run[u].repo] = run[u].message
                                  /\ "handleCommitEvent" \in ev'.calls
       /\ ev'.op = "GenCallGate" =>
            /\ run[ev'.slot].pc = "committed"
            /\ "handleCommitEvent" \in ev'.calls
       /\ ev'.op \in {"GenCommitResolved", "GenCallGate"} =>
            /\ "repository.push" \notin ev'.calls
            /\ \A s \in GateSlots :
                  gate'[s] # gate[s] =>
                      gate[s].pc = "idle" /\ gate'[s].pc = "awaitHead" /\ gate'[s].pushes = 0]_vars

\* The direct call of the gate, the last step of a run that has committed the
\* message it generated.
C22_Witness ==
    /\ ev.op = "GenCallGate"
    /\ latest[ev.repo] = inputBox[ev.repo]
    /\ latest[ev.repo] \in GeneratedMsgs

\* C23: when `git add` or repository.commit rejects with a message holding
\* one of the nothing-to-commit phrases, in any case, the step clears the
\* pending entry of the repository, shows one warning and no error, ends the
\* run, calls nothing (neither the gate nor push), and leaves the gate, the
\* guard and the commits as they are.
C23_NothingToCommitIsBenign ==
    [][(/\ ev'.op = "GenCommitFailed"
        /\ \E i \in 1..Len(ev'.data) :
              ev'.data[i] \in NoChangesPhrases \cup {"Empty Commit Message"}) =>
            /\ run[ev'.slot].pc \in {"staging", "committing"}
            /\ pending'[repositoryKey(ev'.repo)] = NoText
            /\ ev'.notify = "warning"
            /\ ev'.result = "no-changes"
            /\ ev'.calls = {}
            /\ run'[ev'.slot] = IdleRun
            /\ UNCHANGED <<gate, inFlight, latest, head, inputBox>>]_vars

\* repository.commit rejects with "Empty Commit Message" in capitals.
C23_Witness ==
    /\ ev.op = "GenCommitFailed"
    /\ ev.data = <<"Aborting commit due to", "Empty Commit Message">>
    /\ ev.notify = "warning"
    /\ pendingGet(ev.repo) = NoText

\* C24: with autoCommitAfterGenerate off, the step in which the generator
\* resolves writes the message to the input box and to the pending entry and
\* ends the run: it calls nothing and leaves the commits, the gate and the
\* guard as they are; evaluations of the gate start only in steps in which a
\* commit notification arrives.
C24_ManualModeStopsArmed ==
    [][/\ (ev'.op = "GenGenerated" /\ ~run[ev'.slot].auto) =>
            /\ inputBox'[ev'.repo] = ev'.data
            /\ pending'[repositoryKey(ev'.repo)] = ev'.data
            /\ ev'.data \in GeneratedMsgs
            /\ ev'.calls = {}
            /\ run'[ev'.slot] = IdleRun
            /\ UNCHANGED <<gate, inFlight, latest, head>>
       /\ ~config.autoCommitAfterGenerate =>
            /\ \A u \in RunSlots : ~run'[u].auto
            /\ (\E s \in GateSlots : gate[s].pc = "idle" /\ gate'[s].pc # "idle") =>
                  ev'.op = "CommitOccurs"
            /\ ev'.op \notin {"GenStageResolved", "GenCommitResolved", "GenCommitFailed",
                              "GenCallGate"}]_vars

\* The run has ended with the repository armed and nothing committed.
C24_Witness ==
    /\ ev.op = "GenGenerated"
    /\ ev.result = "armed"
    /\ pendingGet(ev.repo) = ev.data
    /\ inputBox[ev.repo] = ev.data
    /\ latest[ev.repo] = NoText

\* The evaluations in progress on a repository.
GatesOn(r) == {s \in GateSlots : gate[s].pc # "idle" /\ gate[s].repo = r}

\* C25: a step of a run or an evaluation on one repository leaves the pending
\* entry, the guard, the evaluations, the runs, the commits and the input box
\* of every repository with another key as they are; whether a commit
\* notification starts an evaluation depends on the pending entry and the
\* evaluations of its own repository only, and an evaluation on another
\* repository never keeps it from starting.
C25_RepositoriesIndependent ==
    /\ [][\A q \in AllRepos :
            (ev'.repo # q /\ repositoryKey(ev'.repo) # repositoryKey(q)) =>
                /\ pendingGet(q)' = pendingGet(q)
                /\ (repositoryKey(q) \in inFlight') <=> (repositoryKey(q) \in inFlight)
                /\ \A s \in GateSlots :
                      (gate[s].repo = q \/ gate'[s].repo = q) => gate'[s] = gate[s]
                /\ \A u \in RunSlots :
                      (run[u].repo = q \/ run'[u].repo = q) => run'[u] = run[u]
                /\ head'[q] = head[q] /\ latest'[q] = latest[q]
                /\ inputBox'[q] = inputBox[q]]_vars
    /\ [][ev'.op \in NotificationOps =>
            (ev'.startResult = "started" <=>
                (pendingGet(ev'.repo) # NoText /\ GatesOn(ev'.repo) = {}))]_vars
    /\ [](\A q \in AllRepos :
            /\ (repositoryKey(q) \in inFlight) <=> (GatesOn(q) # {})
            /\ GatesOn(q) = {} => FreeGateSlots # {})

\* Both repositories have a push under way at the same time.
C25_Witness ==
    /\ \E s \in GatesOn("r1") : gate[s].pc = "awaitPush"
    /\ \E s \in GatesOn("r2") : gate[s].pc = "awaitPush"
    /\ repositoryKey("r1") # repositoryKey("r2")

\* C26: an evaluation whose HEAD lookup failed and that gets no commit from
\* the hash of HEAD either (HEAD has no hash, or the lookup by hash fails)
\* ends as a skip: push is not called, no error is shown (at most a warning),
\* and the pending entry is cleared.
C26_UnresolvableCommitIsSkip ==
    (ev.op \in {"GateHeadLookupFailed", "GateHashLookupFailed"}
        /\ ev.result \in {"no-commit", "lookup-failed"}) =>
        /\ "repository.push" \notin ev.calls
        /\ ev.notify \in {"none", "warning"}
        /\ pendingGet(ev.repo) = NoText

\* The evaluation in slot s read a pending entry that a generation has
\* replaced since.
Superseded(s) ==
    /\ gate[s].pc # "idle"
    /\ pendingGet(gate[s].repo) \notin {NoText, gate[s].pending}

\* C27: an evaluation that was in progress when a newer pending entry was
\* written neither calls push on the basis of the entry it read nor removes
\* the newer entry when it ends.
C27_NewerEntrySurvivesOlderEvaluation ==
    [][\A s \in GateSlots :
          Superseded(s) =>
              /\ (ev'.slot = s /\ ev'.op \in {"GateHeadLookupResolved", "GateHashLookupResolved"})
                    => "repository.push" \notin ev'.calls
              /\ gate'[s].pc = "idle" => pendingGet(gate[s].repo)' = pendingGet(gate[s].repo)]_vars

\* C28: a message the close listener resolves with (the normalized text,
\* when it is not empty) holds no line feed, has no white space at either end
\* and neither begins nor ends with a quote character.
C28_ResolvedMessageIsClean ==
    (norm.pc = "returned" /\ norm.result # <<>>) =>
        /\ \A i \in 1..Len(norm.result) : norm.result[i] # "\n"
        /\ Head(norm.result) \notin WhiteSpace \cup QuoteChars
        /\ norm.result[Len(norm.result)] \notin WhiteSpace \cup QuoteChars

\* How many times the collection ran git with the argument list `args`.
GitCalls(args) == Cardinality({i \in DOMAIN diff.git : diff.git[i] = args})

\* C29: in collectDiffForPrompt a failure of the diff against HEAD is followed
\* by exactly one diff without a base revision (which is not run otherwise);
\* the collection rejects exactly when that fallback fails, and the
\* orchestrator then stops with an error, calls nothing (no generator) and
\* sets no pending entry; a failure of the untracked-file listing leaves a
\* resolved collection with an empty untracked list; the listing is run at
\* most once, and not at all when untracked files are not requested.
C29_CollectionFailureHandling ==
    /\ [](/\ GitCalls(GitDiffNoBase) = (IF GitDiffHead \in diff.rejected THEN 1 ELSE 0)
          /\ diff.pc = "failed" <=> GitDiffNoBase \in diff.rejected
          /\ GitLsFiles \in diff.rejected =>
                diff.pc = "done" /\ diff.result.untrackedFiles = <<>>
          /\ GitCalls(GitLsFiles) <= (IF diff.includeUntracked THEN 1 ELSE 0)
          /\ \A u \in RunSlots : run[u].pc = "generating" => diff.pc = "done")
    /\ [][\A u \in RunSlots :
            (diff.pc = "failed" /\ run[u].pc = "collecting" /\ run'[u] # run[u]) =>
                /\ run'[u] = IdleRun
                /\ ev'.result = "diff-failed" /\ ev'.notify = "error" /\ ev'.calls = {}
                /\ pending' = pending]_vars

\* Both diffs failed, the collection rejected and the run stopped with the
\* error.
C29_Witness ==
    /\ ev.op = "GenDiffFailed"
    /\ diff.pc = "failed"
    /\ diff.git = <<GitDiffHead, GitDiffNoBase>>
    /\ diff.rejected = {GitDiffHead, GitDiffNoBase}
    /\ \A u \in RunSlots : run[u] = IdleRun
    /\ \A k \in AllKeys : pending[k] = NoText

\* What the slot of `key` holds after the calls of `log`: the message of the
\* last set for the key, unless a clear for the key came after it.
RECURSIVE SlotAfter(_, _)
SlotAfter(key, log) ==
    IF log = <<>>
    THEN NoText
    ELSE LET last == log[Len(log)] IN
         IF repositoryKey(last.repo) = key /\ last.op = "set" THEN last.message
         ELSE IF repositoryKey(last.repo) = key /\ last.op = "clear" THEN NoText
         ELSE SlotAfter(key, SubSeq(log, 1, Len(log) - 1))

\* C30: after any sequence of set, get and clear calls on the pending-state
\* registry, every get returned the message of the most recent set for the
\* key of its repository that no clear for that key followed, and nothing
\* otherwise; repositories whose root paths normalize to the same key read the
\* same slot; and the registry holds entries for at most the keys that were
\* set.
C30_RegistryHoldsLastSetPerKey ==
    /\ \A i \in DOMAIN RegistryLog :
          RegistryLog[i].op = "get" =>
              RegistryLog[i].returned =
                  SlotAfter(repositoryKey(RegistryLog[i].repo), SubSeq(RegistryLog, 1, i - 1))
    /\ \A r \in RegistryRepos : pendingGet(r) = SlotAfter(repositoryKey(r), RegistryLog)
    /\ \A r, q \in RegistryRepos :
          repositoryKey(r) = repositoryKey(q) => pendingGet(r) = pendingGet(q)
    /\ \A k \in RegistryKeys :
          pending[k] # NoText => \E r \in RegistryRepos : repositoryKey(r) = k

\* On Windows a message set through the repository spelt in another case was
\* overwritten through the one with the "." segment, and a get through r1
\* returned the second message.
C30_Witness ==
    /\ platform = "win32"
    /\ Len(RegistryLog) >= 3
    /\ RegistryLog[1].op = "set" /\ RegistryLog[1].repo = "r4"
    /\ RegistryLog[2].op = "set" /\ RegistryLog[2].repo = "r3"
    /\ RegistryLog[2].message # RegistryLog[1].message
    /\ RegistryLog[3].op = "get" /\ RegistryLog[3].repo = "r1"
    /\ RegistryLog[3].returned = RegistryLog[2].message

====
